---- MODULE Spec2Model ----
(***************************************************************************)
(* Verification model of the opcode backend kernel (src-tauri/src).        *)
(*                                                                         *)
(* Part 1: the session kernel (session/state.rs, session/manager.rs).      *)
(* Part 2: the streamable HTTP transport (mcp/streamable_http.rs).         *)
(* Part 3: response handling of the transport (handle_response, SSE).      *)
(* Part 4: the health monitor (mcp/health.rs).                             *)
(* Part 5: the task manager (tasks/manager.rs, tasks/types.rs).            *)
(*                                                                         *)
(* Each part has its own specification (SessionSpec, TransportSpec,        *)
(* ExchangeSpec, HealthSpec, TaskSpec) over its own variables; the other   *)
(* parts' variables stay at their initial values.                          *)
(***************************************************************************)
EXTENDS Naturals, Integers, Sequences, FiniteSets, Bags, TLC

\* ------------------------------------------------------------------ bounds

\* Session ids the callers draw from.
NumIds == 2
\* Largest max_sessions handed to SessionManager::with_limits.
MaxSessionsLimit == 2
\* Events the model lets the session buses carry, all sessions together.
MaxEvents == 3
\* Concurrent cancel_session / kill_session calls in flight.
NumCallers == 1

SessionIds == 1..NumIds
\* Process ids handed to register_process.
Pids == {1}
\* create_session calls running at once.
MaxCreators == 2

\* ------------------------------------------------------------- variables

VARIABLES
    sessions,       \* SessionManager.sessions : id -> SessionState
    processes,      \* SessionManager.processes : id -> ManagedProcess
    max_sessions,   \* SessionManager.max_sessions
    inflight,       \* bag of the cancel_session/kill_session calls awaiting their process
    emitted,        \* how many events the session buses have carried so far
    shut,           \* where the shutdown_all call stands
    creating        \* ids of the create_session calls between their checks and their insert

sessVars == <<sessions, processes, max_sessions, inflight, emitted, shut, creating>>

VARIABLES
    connected,            \* StreamableHttpTransport.connected
    session_id,           \* StreamableHttpTransport.session_id
    server_capabilities,  \* StreamableHttpTransport.server_capabilities
    server_info,          \* StreamableHttpTransport.server_info
    request_id,           \* StreamableHttpTransport.request_id
    cpc,                  \* where the connect() call in progress stands
    pending,              \* the &self calls awaiting their HTTP response
    issued,               \* the ids next_request_id has returned, in order
    sent,                 \* how many HTTP messages went to the network
    tret,                 \* the call step taken last and what it returned
    wire                  \* the session header of the message just built or of the
                          \* response just received

tpVars == <<connected, session_id, server_capabilities, server_info, request_id,
            cpc, pending, issued, sent, tret, wire>>

VARIABLES
    xreq,           \* the request of the exchange made last: entry point and id
    xhttp,          \* the HTTP response the server gave to it
    xres            \* what the entry point returned to its caller

rxVars == <<xreq, xhttp, xres>>

VARIABLES
    health_status,          \* McpHealthMonitor.health_status : server id -> ServerHealth
    unreachable_threshold,  \* McpHealthMonitor.unreachable_threshold
    probing,                \* the probes awaiting their ping or HEAD answer
    probes,                 \* how many probes have been started
    hlast,                  \* the probe completed last: its sample, record and events
    running,                \* McpHealthMonitor.running, the gate of the loops
    loops                   \* the background loops start_monitoring has spawned

hlVars ==
    <<health_status, unreachable_threshold, probing, probes, hlast, running, loops>>

VARIABLES
    tasks,          \* TaskManager.tasks : task id -> Task
    handles,        \* TaskManager.handles : task id -> TaskHandle
    max_history,    \* TaskManager.max_history
    created,        \* how many tasks create_task has made (ids are fresh)
    now,            \* the clock completed_at is read from
    completed_any,  \* complete_task has been called at least once
    tlast,          \* the task manager call made last
    calls,          \* how many task manager calls have been made
    subscribed,     \* subscribe() has been called: event_tx has a receiver
    tevents         \* the events that receiver has been sent, in order

tkVars ==
    <<tasks, handles, max_history, created, now, completed_any, tlast, calls,
      subscribed, tevents>>

VARIABLES
    skills,          \* SkillRegistry.skills : skill id -> Skill
    slash_commands,  \* SkillRegistry.slash_commands : command name -> skill id
    hooks,           \* SkillRegistry.hooks : trigger key -> skill ids, in push order
    skcalls          \* how many registry calls have been made

skVars == <<skills, slash_commands, hooks, skcalls>>

VARIABLES
    wflow,           \* skill.config.workflow of the skill handed to execute_workflow
    wres             \* what execute_workflow returned, None before the call

wfVars == <<wflow, wres>>

VARIABLES
    mproc,           \* the ManagedProcess taken out of the process map, and its child
    mres             \* what shutdown or kill did to it, None before the call

mpVars == <<mproc, mres>>

VARIABLES
    ereg,            \* the SkillRegistry behind SkillExecutor.registry
    ecall,           \* the executor entry point called, and its argument
    eres             \* what the entry point returned, None before the call

exVars == <<ereg, ecall, eres>>

\* What an action of one part leaves alone: the variables of the other parts.
notSession == <<tpVars, rxVars, hlVars, tkVars, skVars, wfVars, mpVars, exVars>>
notTransport == <<sessVars, rxVars, hlVars, tkVars, skVars, wfVars, mpVars, exVars>>
notExchange == <<sessVars, tpVars, hlVars, tkVars, skVars, wfVars, mpVars, exVars>>
notHealth == <<sessVars, tpVars, rxVars, tkVars, skVars, wfVars, mpVars, exVars>>
notTasks == <<sessVars, tpVars, rxVars, hlVars, skVars, wfVars, mpVars, exVars>>
notSkills == <<sessVars, tpVars, rxVars, hlVars, tkVars, wfVars, mpVars, exVars>>
notWorkflow == <<sessVars, tpVars, rxVars, hlVars, tkVars, skVars, mpVars, exVars>>
notProcess == <<sessVars, tpVars, rxVars, hlVars, tkVars, skVars, wfVars, exVars>>
notExecutor == <<sessVars, tpVars, rxVars, hlVars, tkVars, skVars, wfVars, mpVars>>

\* ------------------------------------------------------------ map helpers

\* Option<T>: None is the empty sequence, Some(x) the sequence <<x>>.
None == <<>>
Some(x) == <<x>>
NoPid == None
EmptyMap == [x \in {} |-> 0]

Restrict(f, D) == [x \in D |-> f[x]]

Put(f, k, v) == [x \in DOMAIN f \cup {k} |-> IF x = k THEN v ELSE f[x]]

Remove(f, k) == Restrict(f, DOMAIN f \ {k})

\* --------------------------------------------------- session/state.rs

SessionStatus ==
    {"Initializing", "Running", "Paused", "Completed", "Cancelled", "Failed",
     "Terminating"}

StatusChanged(old, new) ==
    [type |-> "StatusChanged", old_status |-> old, new_status |-> new]

\* SessionState::new: status Initializing, no pid, a fresh event channel.
NewSessionState == [status |-> "Initializing", pid |-> NoPid, bus |-> <<>>]

\* SessionState::emit: broadcast send; the subscriber's view of the channel.
emit(s, event) == [s EXCEPT !.bus = Append(@, event)]

\* SessionState::set_status: overwrite the status, whatever it was, and emit.
set_status(s, status) ==
    emit([s EXCEPT !.status = status], StatusChanged(s.status, status))

set_running(s, pid) == set_status([s EXCEPT !.pid = Some(pid)], "Running")

set_completed(s) == set_status([s EXCEPT !.pid = NoPid], "Completed")

set_failed(s) == set_status([s EXCEPT !.pid = NoPid], "Failed")

set_cancelled(s) == set_status([s EXCEPT !.pid = NoPid], "Cancelled")

is_active(s) == s.status \in {"Running", "Paused"}

is_terminal(s) == s.status \in {"Completed", "Cancelled", "Failed"}

\* ------------------------------------------------- session/manager.rs

\* What a manager method leaves behind and returns.
Mgr(S, P, res) == [sessions |-> S, processes |-> P, res |-> res]

TerminalIds(S) == {id \in DOMAIN S : is_terminal(S[id])}

\* Mutant of cleanup_terminal_sessions: reaps nothing.
cleanup_terminal_sessions_none(S, P) == Mgr(S, P, "Ok")

\* cleanup_terminal_sessions: remove every terminal session and its process entry.
cleanup_terminal_sessions(S, P) ==
    Mgr(Restrict(S, DOMAIN S \ TerminalIds(S)),
        Restrict(P, DOMAIN P \ TerminalIds(S)), "Ok")

\* Mutant of create_session: the duplicate check comes before the capacity check.
create_session_duplicate_first(S, P, max, id) ==
    LET atCap == Cardinality(DOMAIN S) >= max
        m == IF atCap THEN cleanup_terminal_sessions(S, P) ELSE Mgr(S, P, "Ok")
    IN  IF id \in DOMAIN S
        THEN Mgr(S, P, "SessionExists")
        ELSE IF atCap /\ Cardinality(DOMAIN m.sessions) >= max
        THEN Mgr(m.sessions, m.processes, "MaxSessionsReached")
        ELSE Mgr(Put(m.sessions, id, NewSessionState), m.processes, "Ok")

\* create_session: capacity check (with one cleanup pass), duplicate check, insert.
create_session(S, P, max, id) ==
    LET atCap == Cardinality(DOMAIN S) >= max
        m == IF atCap THEN cleanup_terminal_sessions(S, P) ELSE Mgr(S, P, "Ok")
    IN  IF atCap /\ Cardinality(DOMAIN m.sessions) >= max
        THEN Mgr(m.sessions, m.processes, "MaxSessionsReached")
        ELSE IF id \in DOMAIN m.sessions
        THEN Mgr(m.sessions, m.processes, "SessionExists")
        ELSE Mgr(Put(m.sessions, id, NewSessionState), m.processes, "Ok")

\* register_process: set_running(pid) on the session, then insert the process.
register_process(S, P, id, pid) ==
    IF id \in DOMAIN S
    THEN Mgr([S EXCEPT ![id] = set_running(@, pid)], Put(P, id, [pid |-> pid]), "Ok")
    ELSE Mgr(S, P, "SessionNotFound")

\* cancel_session up to the process shutdown: status Terminating if the session
\* exists, the process entry taken out of the map.
cancel_session_begin(S, P, id) ==
    Mgr(IF id \in DOMAIN S THEN [S EXCEPT ![id] = set_status(@, "Terminating")]
                           ELSE S,
        Remove(P, id), "Pending")

\* cancel_session after the shutdown (its error is only logged): set_cancelled
\* if the session exists, and Ok(()) in every case.
cancel_session_end(S, P, id) ==
    Mgr(IF id \in DOMAIN S THEN [S EXCEPT ![id] = set_cancelled(@)] ELSE S, P, "Ok")

\* kill_session up to the process kill: the process entry taken out of the map.
kill_session_begin(S, P, id) == Mgr(S, Remove(P, id), "Pending")

\* kill_session after the kill: set_cancelled if the session exists, Ok(()).
kill_session_end(S, P, id) ==
    Mgr(IF id \in DOMAIN S THEN [S EXCEPT ![id] = set_cancelled(@)] ELSE S, P, "Ok")

\* complete_session: drop the process entry, set_completed or SessionNotFound.
complete_session(S, P, id) ==
    IF id \in DOMAIN S
    THEN Mgr([S EXCEPT ![id] = set_completed(@)], Remove(P, id), "Ok")
    ELSE Mgr(S, Remove(P, id), "SessionNotFound")

\* fail_session: drop the process entry, set_failed or SessionNotFound.
fail_session(S, P, id) ==
    IF id \in DOMAIN S
    THEN Mgr([S EXCEPT ![id] = set_failed(@)], Remove(P, id), "Ok")
    ELSE Mgr(S, Remove(P, id), "SessionNotFound")

\* Mutant of shutdown_all_end: the maps are left as the cancels left them.
shutdown_all_end_keep(S, P) == Mgr(S, P, "Ok")

\* shutdown_all after its loop: sessions.clear(), processes.clear().
shutdown_all_end(S, P) == Mgr(EmptyMap, EmptyMap, "Ok")

\* The shutdown_all call: not made yet ("idle"), between two cancel_session
\* calls of its loop ("loop"), inside the cancel_session of session cur at the
\* process shutdown ("wait"), returned ("done"). ids are the collected session
\* ids still to be cancelled; proc tells whether cancel_session took a process
\* entry for cur out of the map.
Shut(pc, ids, cur, proc) == [pc |-> pc, ids |-> ids, cur |-> cur, proc |-> proc]

ShutIdle == Shut("idle", {}, 0, FALSE)

\* The step emits one event if session id exists; the model has room for it.
Room(id) == id \in DOMAIN sessions => emitted < MaxEvents

Count(id) == IF id \in DOMAIN sessions THEN emitted + 1 ELSE emitted

\* The manager's maps after a method that left m behind.
Becomes(m) == sessions' = m.sessions /\ processes' = m.processes

\* A cancel_session or kill_session call suspended at its process shutdown.
Call(op, id) == [op |-> op, id |-> id, proc |-> id \in DOMAIN processes]

CreateSession(id) ==
    /\ Becomes(create_session(sessions, processes, max_sessions, id))
    /\ UNCHANGED <<max_sessions, inflight, emitted>>
    /\ UNCHANGED <<shut, creating, notSession>>

RegisterProcess(id, pid) ==
    /\ Room(id)
    /\ emitted' = Count(id)
    /\ Becomes(register_process(sessions, processes, id, pid))
    /\ UNCHANGED <<max_sessions, inflight>>
    /\ UNCHANGED <<shut, creating, notSession>>

CancelSessionBegin(id) ==
    /\ BagCardinality(inflight) < NumCallers
    /\ Room(id)
    /\ emitted' = Count(id)
    /\ Becomes(cancel_session_begin(sessions, processes, id))
    /\ inflight' = inflight (+) SetToBag({Call("cancel_session", id)})
    /\ UNCHANGED max_sessions
    /\ UNCHANGED <<shut, creating, notSession>>

CancelSessionEnd(call) ==
    /\ BagIn(call, inflight)
    /\ call.op = "cancel_session"
    /\ Room(call.id)
    /\ emitted' = Count(call.id)
    /\ Becomes(cancel_session_end(sessions, processes, call.id))
    /\ inflight' = inflight (-) SetToBag({call})
    /\ UNCHANGED max_sessions
    /\ UNCHANGED <<shut, creating, notSession>>

KillSessionBegin(id) ==
    /\ BagCardinality(inflight) < NumCallers
    /\ Becomes(kill_session_begin(sessions, processes, id))
    /\ inflight' = inflight (+) SetToBag({Call("kill_session", id)})
    /\ UNCHANGED <<max_sessions, emitted>>
    /\ UNCHANGED <<shut, creating, notSession>>

KillSessionEnd(call) ==
    /\ BagIn(call, inflight)
    /\ call.op = "kill_session"
    /\ Room(call.id)
    /\ emitted' = Count(call.id)
    /\ Becomes(kill_session_end(sessions, processes, call.id))
    /\ inflight' = inflight (-) SetToBag({call})
    /\ UNCHANGED max_sessions
    /\ UNCHANGED <<shut, creating, notSession>>

CompleteSession(id) ==
    /\ Room(id)
    /\ emitted' = Count(id)
    /\ Becomes(complete_session(sessions, processes, id))
    /\ UNCHANGED <<max_sessions, inflight>>
    /\ UNCHANGED <<shut, creating, notSession>>

FailSession(id) ==
    /\ Room(id)
    /\ emitted' = Count(id)
    /\ Becomes(fail_session(sessions, processes, id))
    /\ UNCHANGED <<max_sessions, inflight>>
    /\ UNCHANGED <<shut, creating, notSession>>

CleanupTerminalSessions ==
    /\ Becomes(cleanup_terminal_sessions(sessions, processes))
    /\ UNCHANGED <<max_sessions, inflight, emitted>>
    /\ UNCHANGED <<shut, creating, notSession>>

\* cleanup_stale_sessions: the terminal sessions whose last activity is older
\* than the timeout (any of the terminal ones) are removed with their processes.
CleanupStaleSessions ==
    /\ \E stale \in SUBSET TerminalIds(sessions) :
          /\ stale # {}
          /\ sessions' = Restrict(sessions, DOMAIN sessions \ stale)
          /\ processes' = Restrict(processes, DOMAIN processes \ stale)
    /\ UNCHANGED <<max_sessions, inflight, emitted>>
    /\ UNCHANGED <<shut, creating, notSession>>

\* create_session up to its insert: the capacity check with its cleanup pass
\* and the duplicate check, each a call on the concurrent map.
create_session_check(S, P, max, id) ==
    LET atCap == Cardinality(DOMAIN S) >= max
        m == IF atCap THEN cleanup_terminal_sessions(S, P) ELSE Mgr(S, P, "Ok")
    IN  IF atCap /\ Cardinality(DOMAIN m.sessions) >= max
        THEN Mgr(m.sessions, m.processes, "MaxSessionsReached")
        ELSE IF id \in DOMAIN m.sessions
        THEN Mgr(m.sessions, m.processes, "SessionExists")
        ELSE Mgr(m.sessions, m.processes, "Pending")

\* create_session, the insert of the new SessionState under the id.
create_session_insert(S, P, id) == Mgr(Put(S, id, NewSessionState), P, "Ok")

\* One of several create_session calls running at once, up to its insert; a
\* call that fails its checks returns here. Callers use distinct ids.
CreateSessionBegin(id) ==
    /\ Cardinality(creating) < MaxCreators
    /\ id \notin creating
    /\ LET m == create_session_check(sessions, processes, max_sessions, id)
       IN  /\ Becomes(m)
           /\ creating' = IF m.res = "Pending" THEN creating \cup {id} ELSE creating
    /\ UNCHANGED <<max_sessions, inflight, emitted, shut>>
    /\ UNCHANGED notSession

\* The insert of a create_session call that passed its checks.
CreateSessionEnd(id) ==
    /\ id \in creating
    /\ Becomes(create_session_insert(sessions, processes, id))
    /\ creating' = creating \ {id}
    /\ UNCHANGED <<max_sessions, inflight, emitted, shut>>
    /\ UNCHANGED notSession

\* shutdown_all: collect the ids of the sessions in the map.
ShutdownAllBegin ==
    /\ shut.pc = "idle"
    /\ shut' = Shut("loop", DOMAIN sessions, 0, FALSE)
    /\ UNCHANGED <<sessions, processes, max_sessions, inflight, emitted>>
    /\ UNCHANGED <<creating, notSession>>

\* shutdown_all, one turn of the loop up to the process shutdown: cancel_session
\* of one collected id (the map's iteration order is arbitrary).
ShutdownAllCancelBegin(id) ==
    /\ shut.pc = "loop"
    /\ id \in shut.ids
    /\ Room(id)
    /\ emitted' = Count(id)
    /\ Becomes(cancel_session_begin(sessions, processes, id))
    /\ shut' = Shut("wait", shut.ids, id, id \in DOMAIN processes)
    /\ UNCHANGED <<max_sessions, inflight>>
    /\ UNCHANGED <<creating, notSession>>

\* shutdown_all, the rest of the turn: cancel_session after the shutdown.
ShutdownAllCancelEnd ==
    /\ shut.pc = "wait"
    /\ Room(shut.cur)
    /\ emitted' = Count(shut.cur)
    /\ Becomes(cancel_session_end(sessions, processes, shut.cur))
    /\ shut' = Shut("loop", shut.ids \ {shut.cur}, shut.cur, shut.proc)
    /\ UNCHANGED <<max_sessions, inflight>>
    /\ UNCHANGED <<creating, notSession>>

\* shutdown_all after the last turn: both maps cleared, the call returns.
ShutdownAllEnd ==
    /\ shut.pc = "loop"
    /\ shut.ids = {}
    /\ Becomes(shutdown_all_end(sessions, processes))
    /\ shut' = Shut("done", {}, shut.cur, shut.proc)
    /\ UNCHANGED <<max_sessions, inflight, emitted>>
    /\ UNCHANGED <<creating, notSession>>

\* ------------------------------------------- mcp/streamable_http.rs

\* Values a server hands out in the Mcp-Session-Id header.
NumSids == 2
\* Request ids the model lets one transport hand out.
MaxRequests == 2
\* HTTP messages the model lets one transport send.
MaxSent == 3
\* Requests and notifications of &self callers in flight at once.
MaxPending == 2

Sids == 1..NumSids

GuardedMethods ==
    {"tools/list", "tools/call", "resources/list", "resources/read",
     "prompts/list", "prompts/get"}

\* Methods a caller hands to the raw send_request entry point.
RawMethods == {"tools/call"}

NotificationMethods == {"notifications/initialized", "notifications/progress"}

IsNotification(method) == method \in NotificationMethods

\* Methods the handshake rule lets through while the transport is not connected.
Exempt == {"initialize", "ping"} \cup NotificationMethods

TRet(entry, method, step, res, id) ==
    [entry |-> entry, method |-> method, step |-> step, res |-> res, id |-> id]

\* Mutant of next_request_id: a load that is not followed by the store.
next_request_id_stuck(rid) == [id |-> rid, request_id |-> rid]

\* next_request_id: request_id.fetch_add(1, SeqCst), one atomic step.
next_request_id(rid) == [id |-> rid, request_id |-> rid + 1]

\* HeaderValue::to_str: the text of a header value, if it is visible ASCII.
\* Header values are the session ids the server uses, as text, and 0, a value
\* with bytes outside visible ASCII.
to_str(value) == IF value \in Sids THEN Some(value) ELSE None

\* Mutant of store_session_id: the header value is stored as it came.
store_session_id_raw(current, hdr) == IF hdr = None THEN current ELSE hdr

\* send_and_receive, the response headers: an Mcp-Session-Id header whose value
\* is text replaces the stored session id.
store_session_id(current, hdr) ==
    IF hdr = None \/ to_str(hdr[1]) = None THEN current ELSE to_str(hdr[1])

\* The message built now carries the session id cached at this moment.
Built(sid) == [sid |-> sid, got |-> None]

\* send_and_receive has received a response with this Mcp-Session-Id header
\* (none at all when the send failed).
Got(outcome, hdr) ==
    [sid |-> None, got |-> IF outcome = "neterr" THEN None ELSE hdr]

\* A method that takes an id, builds its request and sends it: the part of
\* send_and_receive before the await.
IssueRequest(entry, method) ==
    /\ request_id <= MaxRequests
    /\ sent < MaxSent
    /\ Cardinality(pending) < MaxPending
    /\ LET n == next_request_id(request_id)
       IN  /\ request_id' = n.request_id
           /\ issued' = Append(issued, n.id)
           /\ pending' = pending \cup
                  {[entry |-> entry, method |-> method, id |-> Some(n.id),
                    sid |-> session_id, n |-> sent + 1]}
           /\ tret' = TRet(entry, method, "call", "Pending", Some(n.id))
    /\ sent' = sent + 1
    /\ wire' = Built(session_id)
    /\ UNCHANGED <<connected, session_id, server_capabilities, server_info, cpc>>

\* list_tools, call_tool, list_resources, read_resource, list_prompts,
\* get_prompt: NotConnected unless connected, else a request with a fresh id.
GuardedRpc(entry, method) ==
    /\ cpc = "idle"
    /\ IF ~connected
       THEN /\ tret' = TRet(entry, method, "call", "NotConnected", None)
            /\ UNCHANGED <<connected, session_id, server_capabilities, server_info,
                           request_id, cpc, pending, issued, sent, wire>>
       ELSE IssueRequest(entry, method)

ListTools == GuardedRpc("list_tools", "tools/list") /\ UNCHANGED notTransport

CallTool == GuardedRpc("call_tool", "tools/call") /\ UNCHANGED notTransport

ListResources == GuardedRpc("list_resources", "resources/list") /\ UNCHANGED notTransport

ReadResource == GuardedRpc("read_resource", "resources/read") /\ UNCHANGED notTransport

ListPrompts == GuardedRpc("list_prompts", "prompts/list") /\ UNCHANGED notTransport

GetPrompt == GuardedRpc("get_prompt", "prompts/get") /\ UNCHANGED notTransport

\* ping: a request with a fresh id, whatever the connection state.
Ping ==
    /\ UNCHANGED notTransport
    /\ cpc = "idle"
    /\ IssueRequest("ping", "ping")

\* send_request: the caller's envelope, with the caller's id, goes straight to
\* send_and_receive.
SendRequest(method, id) ==
    /\ UNCHANGED notTransport
    /\ cpc = "idle"
    /\ sent < MaxSent
    /\ Cardinality(pending) < MaxPending
    /\ pending' = pending \cup
           {[entry |-> "send_request", method |-> method, id |-> Some(id),
             sid |-> session_id, n |-> sent + 1]}
    /\ sent' = sent + 1
    /\ tret' = TRet("send_request", method, "call", "Pending", Some(id))
    /\ wire' = Built(session_id)
    /\ UNCHANGED <<connected, session_id, server_capabilities, server_info,
                   request_id, cpc, issued>>

\* send_notification up to the await: an envelope without an id is sent.
SendNotification(method) ==
    /\ UNCHANGED notTransport
    /\ cpc = "idle"
    /\ sent < MaxSent
    /\ Cardinality(pending) < MaxPending
    /\ pending' = pending \cup
           {[entry |-> "send_notification", method |-> method, id |-> None,
             sid |-> session_id, n |-> sent + 1]}
    /\ sent' = sent + 1
    /\ tret' = TRet("send_notification", method, "call", "Pending", None)
    /\ wire' = Built(session_id)
    /\ UNCHANGED <<connected, session_id, server_capabilities, server_info,
                   request_id, cpc, issued>>

\* The HTTP exchange of one pending call ends. outcome "neterr": the send
\* failed; "error": an HTTP error status, a JSON-RPC error or an unusable body;
\* "ok": a usable answer. Only send_and_receive reads the session header.
Response(p, outcome, hdr) ==
    /\ UNCHANGED notTransport
    /\ p \in pending
    /\ pending' = pending \ {p}
    /\ session_id' = IF p.entry = "send_notification" \/ outcome = "neterr"
                     THEN session_id
                     ELSE store_session_id(session_id, hdr)
    /\ tret' = TRet(p.entry, p.method, "return",
                    IF outcome = "ok" THEN "Ok" ELSE "Err", p.id)
    /\ wire' = IF p.entry = "send_notification" THEN wire ELSE Got(outcome, hdr)
    /\ UNCHANGED <<connected, server_capabilities, server_info, request_id, cpc,
                   issued, sent>>

\* connect up to the first await: the auth validity check, then initialize
\* takes an id and sends its request. connect takes &mut self: no other call
\* is in flight.
ConnectBegin(auth_valid) ==
    /\ UNCHANGED notTransport
    /\ cpc = "idle"
    /\ pending = {}
    /\ IF ~auth_valid
       THEN /\ tret' = TRet("connect", "initialize", "return", "TokenExpired", None)
            /\ UNCHANGED <<connected, session_id, server_capabilities, server_info,
                           request_id, cpc, pending, issued, sent, wire>>
       ELSE /\ request_id <= MaxRequests
            /\ sent < MaxSent
            /\ LET n == next_request_id(request_id)
               IN  /\ request_id' = n.request_id
                   /\ issued' = Append(issued, n.id)
                   /\ tret' = TRet("connect", "initialize", "call", "Pending",
                                   Some(n.id))
            /\ sent' = sent + 1
            /\ wire' = Built(session_id)
            /\ cpc' = "initialize"
            /\ UNCHANGED <<connected, session_id, server_capabilities,
                           server_info, pending>>

\* connect from the initialize response to the next await. On a usable answer
\* the server info and capabilities are cached and the notifications/initialized
\* notification is sent; early = TRUE is the mutant that marks the transport
\* connected at this point.
ConnectInitializeAnswered(outcome, hdr, early) ==
    /\ cpc = "initialize"
    /\ session_id' = IF outcome = "neterr" THEN session_id
                     ELSE store_session_id(session_id, hdr)
    /\ IF outcome = "ok"
       THEN /\ sent < MaxSent
            /\ server_info' = Some("info")
            /\ server_capabilities' = Some("caps")
            /\ sent' = sent + 1
            /\ cpc' = "initialized"
            /\ connected' = IF early THEN TRUE ELSE connected
            /\ tret' = TRet("connect", "notifications/initialized", "call",
                            "Pending", None)
            /\ wire' = [sid |-> session_id', got |-> hdr]
       ELSE /\ cpc' = "idle"
            /\ tret' = TRet("connect", "initialize", "return", "Err", None)
            /\ wire' = Got(outcome, hdr)
            /\ UNCHANGED <<connected, server_capabilities, server_info, sent>>
    /\ UNCHANGED <<request_id, pending, issued>>

ConnectInitializeResponseEarly(outcome, hdr) ==
    ConnectInitializeAnswered(outcome, hdr, TRUE) /\ UNCHANGED notTransport

ConnectInitializeResponse(outcome, hdr) ==
    ConnectInitializeAnswered(outcome, hdr, FALSE) /\ UNCHANGED notTransport

\* connect from the notification's response to its return: 200, 202 and 204
\* acknowledge the notification and connected becomes true; anything else is
\* the error connect returns.
ConnectInitializedResponse(acknowledged) ==
    /\ UNCHANGED notTransport
    /\ cpc = "initialized"
    /\ cpc' = "idle"
    /\ IF acknowledged
       THEN /\ connected' = TRUE
            /\ tret' = TRet("connect", "notifications/initialized", "return",
                            "Ok", None)
       ELSE /\ tret' = TRet("connect", "notifications/initialized", "return",
                            "Err", None)
            /\ UNCHANGED connected
    /\ UNCHANGED <<session_id, server_capabilities, server_info, request_id,
                   pending, issued, sent, wire>>

\* disconnect: nothing at all unless connected; else the session id, the
\* connected flag, the capabilities and the server info are cleared.
Disconnect ==
    /\ UNCHANGED notTransport
    /\ cpc = "idle"
    /\ pending = {}
    /\ IF ~connected
       THEN UNCHANGED <<connected, session_id, server_capabilities, server_info>>
       ELSE /\ session_id' = None
            /\ connected' = FALSE
            /\ server_capabilities' = None
            /\ server_info' = None
    /\ tret' = TRet("disconnect", "none", "return", "Ok", None)
    /\ UNCHANGED <<request_id, cpc, pending, issued, sent, wire>>

\* ------------------------- mcp/streamable_http.rs: response handling

\* Frames of one SSE stream.
MaxFrames == 2

\* JSON-RPC ids of the requests and of the responses a server sends back.
MsgIds == {1, 2}

\* JsonRpcError objects a server sends.
RpcErrors == {[code |-> c, message |-> "m"] : c \in {-32601, -32000}}

\* JsonRpcResponse: id, result?, error?.
Responses ==
    [id : MsgIds,
     result : {None, Some("a"), Some("b")},
     error : {None} \cup {Some(e) : e \in RpcErrors}]

\* One SSE frame (the text between two blank lines): without a data line, with
\* data that is not a JsonRpcResponse, or with a JsonRpcResponse as data.
Frames ==
    {[kind |-> "nodata"], [kind |-> "garbage"]}
        \cup {[kind |-> "response", msg |-> m] : m \in Responses}

FrameSeqs == UNION {[1..n -> Frames] : n \in 0..MaxFrames}

\* An SSE body: its frames in stream order; unfinished: the last frame is not
\* followed by a blank line when the stream ends; broken: the byte stream
\* reports an error after the frames.
Streams == [frames : FrameSeqs, unfinished : BOOLEAN, broken : BOOLEAN]

\* What the server answers to one POST; "none" is a send that failed.
HttpResponses ==
    {[status |-> s, ctype |-> "json", body |-> b] :
        s \in {"200", "202"}, b \in {None} \cup {Some(m) : m \in Responses}}
    \cup {[status |-> s, ctype |-> "sse", body |-> b] :
        s \in {"200", "202"}, b \in Streams}
    \cup {[status |-> s, ctype |-> "json", body |-> None] :
        s \in {"none", "401", "404", "400", "500"}}

McpErr(type) == [type |-> type, code |-> 0, message |-> ""]

JsonRpcError(e) == [type |-> "JsonRpcError", code |-> e.code, message |-> e.message]

\* McpResult<JsonRpcResponse>; sel is the response the outcome rests on.
RpcOk(m) == [ok |-> TRUE, err |-> None, sel |-> Some(m)]

RpcErr(e, sel) == [ok |-> FALSE, err |-> Some(e), sel |-> sel]

\* parse_sse_event: None for a frame without data.
parse_sse_event(frame) == IF frame.kind = "nodata" THEN None ELSE Some(frame)

\* serde_json::from_str::<JsonRpcResponse>(&sse_event.data)
from_str(event) == IF event.kind = "response" THEN Some(event.msg) ELSE None

\* The frames the loop of handle_sse_response gets to see: those followed by a
\* blank line.
Complete(stream) ==
    IF stream.unfinished /\ Len(stream.frames) > 0
    THEN SubSeq(stream.frames, 1, Len(stream.frames) - 1)
    ELSE stream.frames

\* handle_sse_response, the loop: every frame whose data is a response with the
\* request's id overwrites result.
RECURSIVE SseScan(_, _, _)
SseScan(frames, rid, result) ==
    IF frames = <<>> THEN result
    ELSE LET ev == parse_sse_event(Head(frames))
             rsp == IF ev = None THEN None ELSE from_str(ev[1])
         IN  SseScan(Tail(frames), rid,
                     IF rsp # None /\ rsp[1].id = rid THEN rsp ELSE result)

\* handle_sse_response: a stream error is the error returned; else the result
\* of the loop, or InvalidResponse when there is none. The error field of the
\* frame is not looked at.
handle_sse_response(stream, rid) ==
    LET result == SseScan(Complete(stream), rid, None)
    IN  IF stream.broken THEN RpcErr(McpErr("TransportError"), None)
        ELSE IF result = None THEN RpcErr(McpErr("InvalidResponse"), None)
        ELSE RpcOk(result[1])

\* handle_response: 200 and 202 carry a body, an SSE stream or one JSON
\* document (None: one that does not parse), whose id is not compared with the
\* request's; the other statuses are errors.
handle_response(http, rid) ==
    IF http.status \in {"200", "202"}
    THEN IF http.ctype = "sse"
         THEN handle_sse_response(http.body, rid)
         ELSE IF http.body = None THEN RpcErr(McpErr("TransportError"), None)
         ELSE IF http.body[1].error # None
              THEN RpcErr(JsonRpcError(http.body[1].error[1]), http.body)
         ELSE RpcOk(http.body[1])
    ELSE IF http.status = "401" THEN RpcErr(McpErr("AuthenticationFailed"), None)
    ELSE IF http.status = "404" THEN RpcErr(McpErr("ConnectionFailed"), None)
    ELSE IF http.status = "400" THEN RpcErr(McpErr("InvalidResponse"), None)
    ELSE RpcErr(McpErr("TransportError"), None)

\* send_and_receive after the send: a failed send is the error; else
\* handle_response with the id of the request.
send_and_receive(http, rid) ==
    IF http.status = "none" THEN RpcErr(McpErr("ConnectionFailed"), None)
    ELSE handle_response(http, rid)

\* send_request returns what send_and_receive returns.
send_request(http, rid) == send_and_receive(http, rid)

\* ping drops the response: Ok(()) whenever send_and_receive is Ok.
ping(http, rid) == send_and_receive(http, rid)

\* initialize, list_tools, call_tool, list_resources, read_resource,
\* list_prompts, get_prompt: the result member of the response; InvalidResponse
\* when it is missing.
typed_rpc(http, rid) ==
    LET r == send_and_receive(http, rid)
    IN  IF r.ok /\ r.sel[1].result = None
        THEN RpcErr(McpErr("InvalidResponse"), r.sel)
        ELSE r

ExchangeEntries == {"send_request", "ping", "call_tool"}

\* The entry point returns to its caller.
Returns(entry, r) ==
    /\ xreq.entry = entry
    /\ xres = None
    /\ xres' = Some(r)
    /\ UNCHANGED <<xreq, xhttp>>
    /\ UNCHANGED notExchange

SendRequestReturns == Returns("send_request", send_request(xhttp, xreq.id))

PingReturns == Returns("ping", ping(xhttp, xreq.id))

CallToolReturns == Returns("call_tool", typed_rpc(xhttp, xreq.id))

\* ------------------------------------------------------ mcp/health.rs

\* Servers the monitor probes.
NumServers == 1
\* Probes the model lets the monitor start.
MaxProbes == 3
\* Probes awaiting their answer at once.
NumProbers == 2
\* Largest unreachable_threshold handed to McpHealthMonitor::with_settings.
MaxThreshold == 2

\* The latency above which a sample can count as degraded
\* (record_success: latency_ms > 1000).
DegradedFloorMs == 1000

ServerIds == 1..NumServers

\* Latencies of the samples, in milliseconds.
Latencies == {100, 5000}

HealthStatus == {"Healthy", "Degraded", "Unhealthy", "Unknown"}

\* What one probe observes. ok: ping answered, or HEAD answered 2xx or 405;
\* server_error: HEAD answered 5xx; other: HEAD answered any other status;
\* neterr: the ping or the HEAD request failed.
PingSamples ==
    {[kind |-> "ok", latency |-> l] : l \in Latencies}
        \cup {[kind |-> "neterr", latency |-> 0]}

HeadSamples ==
    {[kind |-> k, latency |-> l] : k \in {"ok", "other", "server_error"},
                                   l \in Latencies}
        \cup {[kind |-> "neterr", latency |-> 0]}

\* ServerHealth::new
NewServerHealth ==
    [status |-> "Unknown", latency_ms |-> None, last_check |-> None,
     last_error |-> None, consecutive_failures |-> 0,
     consecutive_successes |-> 0, avg_latency_ms |-> None]

\* ServerHealth::record_success: the average takes the sample in first, the
\* degraded test then compares the sample with the new average.
record_success(h, latency_ms) ==
    LET avg == IF h.avg_latency_ms # None
               THEN (h.avg_latency_ms[1] * 4 + latency_ms) \div 5
               ELSE latency_ms
    IN  [status |-> IF latency_ms > avg * 2 /\ latency_ms > DegradedFloorMs
                    THEN "Degraded" ELSE "Healthy",
         latency_ms |-> Some(latency_ms),
         last_check |-> Some("now"),
         last_error |-> None,
         consecutive_failures |-> 0,
         consecutive_successes |-> h.consecutive_successes + 1,
         avg_latency_ms |-> Some(avg)]

\* Mutant of record_failure: the success counter is left as it was.
record_failure_keeps_successes(h) ==
    [h EXCEPT !.status = "Unhealthy",
              !.latency_ms = None,
              !.last_check = Some("now"),
              !.last_error = Some("error"),
              !.consecutive_failures = @ + 1]

\* ServerHealth::record_failure
record_failure(h) ==
    [h EXCEPT !.status = "Unhealthy",
              !.latency_ms = None,
              !.last_check = Some("now"),
              !.last_error = Some("error"),
              !.consecutive_failures = @ + 1,
              !.consecutive_successes = 0]

\* HealthEvent
HStatusChanged(server, old, new) ==
    [type |-> "StatusChanged", server_id |-> server, old_status |-> old,
     new_status |-> new]

CheckCompleted(server, h) ==
    [type |-> "CheckCompleted", server_id |-> server, health |-> h]

ServerUnreachable(server, n) ==
    [type |-> "ServerUnreachable", server_id |-> server, consecutive_failures |-> n]

ServerRecovered(server) == [type |-> "ServerRecovered", server_id |-> server]

\* Mutant of probe_events: StatusChanged is sent on every probe.
probe_events_always(server, old_status, h) ==
    <<HStatusChanged(server, old_status, h.status), CheckCompleted(server, h)>>

\* The end of every probe path: StatusChanged if the status differs from the
\* one read at the start, then CheckCompleted with the record about to be stored.
probe_events(server, old_status, h) ==
    (IF old_status # h.status
     THEN <<HStatusChanged(server, old_status, h.status)>> ELSE <<>>)
        \o <<CheckCompleted(server, h)>>

Probed(h, events) == [health |-> h, events |-> events]

\* check_server_health after the ping: record, ServerRecovered on Unhealthy ->
\* Healthy, ServerUnreachable on every failure at or above the threshold.
check_server_health(server, health, sample, threshold) ==
    LET old_status == health.status
        h == IF sample.kind = "ok" THEN record_success(health, sample.latency)
             ELSE record_failure(health)
        first == IF sample.kind = "ok"
                 THEN IF old_status = "Unhealthy" /\ h.status = "Healthy"
                      THEN <<ServerRecovered(server)>> ELSE <<>>
                 ELSE IF h.consecutive_failures >= threshold
                      THEN <<ServerUnreachable(server, h.consecutive_failures)>>
                      ELSE <<>>
    IN  Probed(h, first \o probe_events(server, old_status, h))

\* check_endpoint_health after the HEAD: 2xx and 405 are a success, 5xx a
\* failure, any other status a success forced to Degraded; no ServerRecovered
\* and no ServerUnreachable on this path.
check_endpoint_health(server, health, sample) ==
    LET old_status == health.status
        h == IF sample.kind = "ok" THEN record_success(health, sample.latency)
             ELSE IF sample.kind = "other"
                  THEN [record_success(health, sample.latency)
                            EXCEPT !.status = "Degraded"]
             ELSE record_failure(health)
    IN  Probed(h, probe_events(server, old_status, h))

\* One probe of the start_monitoring loop after the HEAD: 2xx and 405 are a
\* success, with ServerRecovered whenever the old status was Unhealthy; any
\* other status is a failure; a failed request is a failure with
\* ServerUnreachable at or above the threshold.
monitor_probe(server, health, sample, threshold) ==
    LET old_status == health.status
        h == IF sample.kind = "ok" THEN record_success(health, sample.latency)
             ELSE record_failure(health)
        first == IF sample.kind = "ok"
                 THEN IF old_status = "Unhealthy"
                      THEN <<ServerRecovered(server)>> ELSE <<>>
                 ELSE IF sample.kind = "neterr" /\ h.consecutive_failures >= threshold
                      THEN <<ServerUnreachable(server, h.consecutive_failures)>>
                      ELSE <<>>
    IN  Probed(h, first \o probe_events(server, old_status, h))

\* The start of every probe path: the entry of the server is made if absent
\* and cloned; the probe then awaits its answer.
ProbeBegin(path, server) ==
    /\ probes < MaxProbes
    /\ Cardinality(probing) < NumProbers
    /\ health_status' = IF server \in DOMAIN health_status THEN health_status
                        ELSE Put(health_status, server, NewServerHealth)
    /\ probing' = probing \cup
           {[path |-> path, server |-> server, health |-> health_status'[server],
             n |-> probes + 1]}
    /\ probes' = probes + 1
    /\ UNCHANGED <<unreachable_threshold, hlast>>
    /\ UNCHANGED notHealth

\* The end of every probe path: the events are sent and the record computed
\* from the clone is stored over whatever the map holds.
ProbeEnd(pr, sample, r) ==
    /\ pr \in probing
    /\ probing' = probing \ {pr}
    /\ health_status' = Put(health_status, pr.server, r.health)
    /\ hlast' = [path |-> pr.path, server |-> pr.server, sample |-> sample,
                 old_status |-> pr.health.status, health |-> r.health,
                 events |-> r.events, clone |-> pr.health]
    /\ UNCHANGED <<unreachable_threshold, probes>>
    /\ UNCHANGED notHealth

CheckServerHealthBegin(server) ==
    /\ ProbeBegin("ping", server)
    /\ UNCHANGED <<running, loops>>

CheckServerHealthEnd(pr, sample) ==
    /\ pr.path = "ping"
    /\ ProbeEnd(pr, sample,
                check_server_health(pr.server, pr.health, sample,
                                    unreachable_threshold))
    /\ UNCHANGED <<running, loops>>

CheckEndpointHealthBegin(server) ==
    /\ ProbeBegin("endpoint", server)
    /\ UNCHANGED <<running, loops>>

CheckEndpointHealthEnd(pr, sample) ==
    /\ pr.path = "endpoint"
    /\ ProbeEnd(pr, sample,
                check_endpoint_health(pr.server, pr.health, sample))
    /\ UNCHANGED <<running, loops>>

MonitorProbeBegin(server) ==
    /\ ProbeBegin("loop", server)
    /\ UNCHANGED <<running, loops>>

MonitorProbeEnd(pr, sample) ==
    /\ pr.path = "loop"
    /\ ProbeEnd(pr, sample,
                monitor_probe(pr.server, pr.health, sample, unreachable_threshold))
    /\ UNCHANGED <<running, loops>>

\* The HTTP client of an endpoint or loop probe cannot be built: the call
\* (the loop: this turn) ends without a request, an event or a store.
ClientBuildFails(pr) ==
    /\ pr \in probing
    /\ pr.path \in {"endpoint", "loop"}
    /\ probing' = probing \ {pr}
    /\ UNCHANGED <<health_status, unreachable_threshold, probes, hlast>>
    /\ UNCHANGED <<running, loops>>
    /\ UNCHANGED notHealth

\* start_monitoring calls the model lets the callers make.
MaxLoops == 2

\* One spawned loop: at the `while` test ("while"), awaiting its ticker
\* ("tick"), before the gate test of server number at of its list ("servers"),
\* awaiting the HEAD answer of its probe number n ("head"), or ended ("done").
\* stale: stop_monitoring has been called since the loop was started.
Loop(pc, at, n, stale) == [pc |-> pc, at |-> at, n |-> n, stale |-> stale]

\* start_monitoring: the gate set, a new loop spawned.
StartMonitoring ==
    /\ Len(loops) < MaxLoops
    /\ running' = TRUE
    /\ loops' = Append(loops, Loop("while", 0, 0, FALSE))
    /\ UNCHANGED <<health_status, unreachable_threshold, probing, probes, hlast>>
    /\ UNCHANGED notHealth

\* stop_monitoring: the gate cleared.
StopMonitoring ==
    /\ running' = FALSE
    /\ loops' = [l \in DOMAIN loops |->
                    IF loops[l].pc = "done" THEN loops[l]
                    ELSE [loops[l] EXCEPT !.stale = TRUE]]
    /\ UNCHANGED <<health_status, unreachable_threshold, probing, probes, hlast>>
    /\ UNCHANGED notHealth

\* The `while *running.read()` test of a loop, at its start and after each
\* pass over the servers.
LoopWhile(l) ==
    /\ \/ loops[l].pc = "while"
       \/ loops[l].pc = "servers" /\ loops[l].at > NumServers
    /\ loops' = [loops EXCEPT ![l].pc = IF running THEN "tick" ELSE "done"]
    /\ UNCHANGED <<health_status, unreachable_threshold, probing, probes, hlast,
                   running>>
    /\ UNCHANGED notHealth

\* ticker.tick() returns: the pass over the servers begins.
LoopWake(l) ==
    /\ loops[l].pc = "tick"
    /\ loops' = [loops EXCEPT ![l].pc = "servers", ![l].at = 1]
    /\ UNCHANGED <<health_status, unreachable_threshold, probing, probes, hlast,
                   running>>
    /\ UNCHANGED notHealth

\* The gate test before a server of the list: break if the gate is cleared,
\* else the entry is made if absent and cloned and the HEAD request is sent.
LoopProbeBegin(l) ==
    /\ loops[l].pc = "servers"
    /\ loops[l].at <= NumServers
    /\ IF ~running
       THEN /\ loops' = [loops EXCEPT ![l].pc = "while"]
            /\ UNCHANGED <<health_status, probing, probes>>
       ELSE /\ probes < MaxProbes
            /\ health_status' =
                  IF loops[l].at \in DOMAIN health_status THEN health_status
                  ELSE Put(health_status, loops[l].at, NewServerHealth)
            /\ probing' = probing \cup
                  {[path |-> "loop", server |-> loops[l].at,
                    health |-> health_status'[loops[l].at], n |-> probes + 1]}
            /\ probes' = probes + 1
            /\ loops' = [loops EXCEPT ![l].pc = "head", ![l].n = probes + 1]
    /\ UNCHANGED <<unreachable_threshold, hlast, running>>
    /\ UNCHANGED notHealth

\* The HEAD request of the loop's probe is answered or fails: the record is
\* stored and the loop goes on to the next server.
LoopProbeEnd(l, sample) ==
    /\ loops[l].pc = "head"
    /\ \E pr \in probing :
          /\ pr.n = loops[l].n
          /\ ProbeEnd(pr, sample,
                      monitor_probe(pr.server, pr.health, sample,
                                    unreachable_threshold))
    /\ loops' = [loops EXCEPT ![l].pc = "servers", ![l].at = @ + 1]
    /\ UNCHANGED running

\* The HTTP client of the loop's probe cannot be built: `continue`.
LoopBuildFails(l) ==
    /\ loops[l].pc = "head"
    /\ probing' = {pr \in probing : pr.n # loops[l].n}
    /\ loops' = [loops EXCEPT ![l].pc = "servers", ![l].at = @ + 1]
    /\ UNCHANGED <<health_status, unreachable_threshold, probes, hlast, running>>
    /\ UNCHANGED notHealth

\* ----------------------------------- tasks/types.rs, tasks/manager.rs

\* Tasks the model lets create_task make.
MaxTasks == 2
\* Largest max_history handed to TaskManager::with_limits.
MaxHistoryLimit == 1
\* Ticks of the clock that completed_at is read from.
MaxClock == 1
\* Calls of task manager methods the model lets the callers make.
MaxCalls == 5

TaskIds == 1..MaxTasks

TaskStatus == {"Pending", "Running", "Completed", "Failed", "Cancelled", "Paused"}

\* Task::new
NewTask ==
    [status |-> "Pending", cancellable |-> TRUE, result |-> None,
     completed_at |-> None, progress |-> 0]

\* Task::start
task_start(task) == [task EXCEPT !.status = "Running"]

\* Task::complete
task_complete(task, success, at) ==
    [task EXCEPT !.status = IF success THEN "Completed" ELSE "Failed",
                 !.result = Some(success),
                 !.completed_at = Some(at)]

\* Task::cancel
task_cancel(task, at) ==
    [task EXCEPT !.status = "Cancelled", !.completed_at = Some(at)]

\* Task::is_active
task_is_active(task) == task.status \in {"Pending", "Running"}

\* Task::is_terminal
task_is_terminal(task) == task.status \in {"Completed", "Failed", "Cancelled"}

TerminalTasks(T) == {id \in DOMAIN T : task_is_terminal(T[id])}

\* What a task manager method leaves behind and returns.
Tm(T, H, res) == [tasks |-> T, handles |-> H, res |-> res]

\* cleanup_history: the sets of tasks it may evict: the oldest terminal tasks by
\* completed_at, as many as there are beyond max_history (the order among equal
\* timestamps is the map's iteration order).
Evictable(T, max) ==
    LET done == TerminalTasks(T)
        excess == IF Cardinality(done) > max THEN Cardinality(done) - max ELSE 0
    IN  {E \in SUBSET done :
            /\ Cardinality(E) = excess
            /\ \A e \in E, k \in done \ E :
                  T[e].completed_at[1] <= T[k].completed_at[1]}

\* TaskHandle::new, with_cancel, with_handle
TaskHandles == [cancel_tx : BOOLEAN, join_handle : BOOLEAN]

\* TaskHandle::cancel: the sender is taken; the signal goes out if there was one.
handle_cancel(h) == [h EXCEPT !.cancel_tx = FALSE]

\* TaskHandle::abort: the join handle is taken; the future is aborted if there
\* was one.
handle_abort(h) == [h EXCEPT !.join_handle = FALSE]

\* The handle registered for this task, if any, has a join handle.
HasJoinHandle(H, id) == id \in DOMAIN H /\ H[id].join_handle

\* cleanup_history evicting the set E: the tasks and their handles go.
cleanup_history(T, H, E) ==
    Tm(Restrict(T, DOMAIN T \ E), Restrict(H, DOMAIN H \ E), "Ok")

\* start_task: Task::start on whatever the status is.
start_task(T, H, id) ==
    IF id \in DOMAIN T THEN Tm([T EXCEPT ![id] = task_start(@)], H, "Ok")
    ELSE Tm(T, H, "NotFound")

\* complete_task before its cleanup_history: Task::complete on whatever the
\* status is, the handle removed; nothing for an unknown id.
complete_task(T, H, id, success, at) ==
    IF id \in DOMAIN T
    THEN Tm([T EXCEPT ![id] = task_complete(@, success, at)], Remove(H, id), "Ok")
    ELSE Tm(T, H, "Ok")

\* cancel_task: the handle's cancel signal first, then Task::cancel and the
\* handle removed, unless the task is not cancellable or unknown. No
\* cleanup_history.
cancel_task(T, H, id, at) ==
    LET H1 == IF id \in DOMAIN H THEN [H EXCEPT ![id] = handle_cancel(@)] ELSE H
    IN  IF id \notin DOMAIN T THEN Tm(T, H1, "NotFound")
        ELSE IF ~T[id].cancellable THEN Tm(T, H1, "NotCancellable")
        ELSE Tm([T EXCEPT ![id] = task_cancel(@, at)], Remove(H1, id), "Ok")

\* Mutant of abort_task: the future is aborted and cancel_task is not called.
abort_task_only(T, H, id, at) ==
    Tm(T, IF id \in DOMAIN H THEN [H EXCEPT ![id] = handle_abort(@)] ELSE H, "Ok")

\* abort_task: the handle's future is aborted, then cancel_task.
abort_task(T, H, id, at) ==
    cancel_task(T, IF id \in DOMAIN H THEN [H EXCEPT ![id] = handle_abort(@)] ELSE H,
                id, at)

\* Mutant of clear_completed: the is_terminal filter is missing.
clear_completed_all(T, H) == Tm(EmptyMap, Restrict(H, DOMAIN H \ DOMAIN T), "Ok")

\* clear_completed: every terminal task goes, with its handle.
clear_completed(T, H) ==
    Tm(Restrict(T, DOMAIN T \ TerminalTasks(T)),
       Restrict(H, DOMAIN H \ TerminalTasks(T)), "Ok")

TaskBecomes(m) == tasks' = m.tasks /\ handles' = m.handles

\* The ids a caller can hold: those create_task has returned (ids are fresh
\* UUIDs), whether the task is still in the table or not.
IssuedTaskIds == 1..created

\* The call made last: which method, on which id, whether the task was in the
\* table when it was made, and whether it aborted the task's future.
TLast(op, id, existed, aborted) ==
    [op |-> op, id |-> id, existed |-> existed, aborted |-> aborted]

\* One more call of a task manager method.
Called == calls < MaxCalls /\ calls' = calls + 1

\* TaskEvent
TEvent(type, id) == [type |-> type, id |-> id]

\* What a method sends on event_tx: the call was made on tasks T.
task_events(op, T, id, success) ==
    CASE op = "create_task" -> <<TEvent("Created", id)>>
      [] op = "start_task" /\ id \in DOMAIN T -> <<TEvent("Started", id)>>
      [] op = "update_progress" /\ id \in DOMAIN T -> <<TEvent("Progress", id)>>
      [] op = "complete_task" /\ id \in DOMAIN T ->
            <<TEvent(IF success THEN "Completed" ELSE "Failed", id)>>
      [] op = "cancel_task" /\ id \in DOMAIN T /\ T[id].cancellable ->
            <<TEvent("Cancelled", id)>>
      [] OTHER -> <<>>

\* broadcast send: the events reach the receiver if there is one.
Emit(events) ==
    /\ tevents' = IF subscribed THEN tevents \o events ELSE tevents
    /\ UNCHANGED subscribed

\* update_progress: the progress replaced, nothing for an unknown id.
update_progress(T, H, id, progress) ==
    IF id \in DOMAIN T THEN Tm([T EXCEPT ![id].progress = progress], H, "Ok")
    ELSE Tm(T, H, "Ok")

\* create_task: a task with a fresh id, Pending.
CreateTask ==
    /\ created < MaxTasks
    /\ created' = created + 1
    /\ tasks' = Put(tasks, created + 1, NewTask)
    /\ tlast' = TLast("create_task", created + 1, FALSE, FALSE)
    /\ UNCHANGED <<handles, max_history, now, completed_any>>
    /\ Emit(task_events("create_task", tasks, created + 1, FALSE))
    /\ Called
    /\ UNCHANGED notTasks

\* register_handle: for any id, known or not; a handle already there is replaced.
RegisterHandle(id, handle) ==
    /\ handles' = Put(handles, id, handle)
    /\ tlast' = TLast("register_handle", id, id \in DOMAIN tasks, FALSE)
    /\ UNCHANGED <<tasks, max_history, created, now, completed_any>>
    /\ Emit(task_events("register_handle", tasks, id, FALSE))
    /\ Called
    /\ UNCHANGED notTasks

StartTask(id) ==
    /\ TaskBecomes(start_task(tasks, handles, id))
    /\ tlast' = TLast("start_task", id, id \in DOMAIN tasks, FALSE)
    /\ UNCHANGED <<max_history, created, now, completed_any>>
    /\ Emit(task_events("start_task", tasks, id, FALSE))
    /\ Called
    /\ UNCHANGED notTasks

\* complete_task: the completion, then cleanup_history in every case.
CompleteTask(id, success) ==
    /\ LET m == complete_task(tasks, handles, id, success, now)
       IN  \E E \in Evictable(m.tasks, max_history) :
              TaskBecomes(cleanup_history(m.tasks, m.handles, E))
    /\ completed_any' = TRUE
    /\ tlast' = TLast("complete_task", id, id \in DOMAIN tasks, FALSE)
    /\ UNCHANGED <<max_history, created, now>>
    /\ Emit(task_events("complete_task", tasks, id, success))
    /\ Called
    /\ UNCHANGED notTasks

CancelTask(id) ==
    /\ TaskBecomes(cancel_task(tasks, handles, id, now))
    /\ tlast' = TLast("cancel_task", id, id \in DOMAIN tasks, FALSE)
    /\ UNCHANGED <<max_history, created, now, completed_any>>
    /\ Emit(task_events("cancel_task", tasks, id, FALSE))
    /\ Called
    /\ UNCHANGED notTasks

AbortTask(id) ==
    /\ TaskBecomes(abort_task(tasks, handles, id, now))
    /\ tlast' = TLast("abort_task", id, id \in DOMAIN tasks,
                      HasJoinHandle(handles, id))
    /\ UNCHANGED <<max_history, created, now, completed_any>>
    /\ Emit(task_events("cancel_task", tasks, id, FALSE))
    /\ Called
    /\ UNCHANGED notTasks

CleanupHistory ==
    /\ \E E \in Evictable(tasks, max_history) :
          TaskBecomes(cleanup_history(tasks, handles, E))
    /\ tlast' = TLast("cleanup_history", 0, FALSE, FALSE)
    /\ UNCHANGED <<max_history, created, now, completed_any>>
    /\ Emit(task_events("cleanup_history", tasks, 0, FALSE))
    /\ Called
    /\ UNCHANGED notTasks

ClearCompleted ==
    /\ TaskBecomes(clear_completed(tasks, handles))
    /\ tlast' = TLast("clear_completed", 0, FALSE, FALSE)
    /\ UNCHANGED <<max_history, created, now, completed_any>>
    /\ Emit(task_events("clear_completed", tasks, 0, FALSE))
    /\ Called
    /\ UNCHANGED notTasks

UpdateProgress(id, progress) ==
    /\ TaskBecomes(update_progress(tasks, handles, id, progress))
    /\ tlast' = TLast("update_progress", id, id \in DOMAIN tasks, FALSE)
    /\ UNCHANGED <<max_history, created, now, completed_any>>
    /\ Emit(task_events("update_progress", tasks, id, FALSE))
    /\ Called
    /\ UNCHANGED notTasks

\* Time passes between two calls.
Tick ==
    /\ now < MaxClock
    /\ now' = now + 1
    /\ UNCHANGED <<tasks, handles, max_history, created, completed_any, tlast, calls,
                   subscribed, tevents>>
    /\ UNCHANGED notTasks

\* --------------------------------- skills/types.rs, skills/registry.rs

\* Skill ids the callers use.
NumSkills == 2
\* Registry calls the model lets the callers make.
MaxSkillCalls == 4

SkillIds == 1..NumSkills

\* SlashCommandConfig::name
CommandNames == {"build", "test"}

\* HookTrigger
HookTriggers == {"PreTool", "SessionStart"}

\* The skills handed to the registry. Of SkillConfig the registry reads only
\* the part of the skill's own kind: slash_command of a SlashCommand, hook of a
\* Hook; either may be absent. A Workflow stands for the kinds without an index.
Skills ==
    [id : SkillIds, kind : {"SlashCommand"},
     cmd : {None} \cup {Some(c) : c \in CommandNames}, trigger : {None}]
        \cup [id : SkillIds, kind : {"Hook"}, cmd : {None},
              trigger : {None} \cup {Some(g) : g \in HookTriggers}]
        \cup [id : SkillIds, kind : {"Workflow"}, cmd : {None}, trigger : {None}]

\* format!("{:?}", hook.trigger).to_lowercase()
trigger_key(trigger) ==
    CASE trigger = "PreTool" -> "pretool"
      [] trigger = "SessionStart" -> "sessionstart"

\* The three maps of a registry.
Reg(S, C, H) == [skills |-> S, slash_commands |-> C, hooks |-> H]

\* hooks.get(key), an absent key read as the empty list.
HookIds(H, key) == IF key \in DOMAIN H THEN H[key] ELSE <<>>

\* register_skill: the index of the skill's kind first (insert for a command
\* name, push for a trigger), then the skill into the map.
register_skill(R, skill) ==
    Reg(Put(R.skills, skill.id, skill),
        IF skill.kind = "SlashCommand" /\ skill.cmd # None
        THEN Put(R.slash_commands, skill.cmd[1], skill.id)
        ELSE R.slash_commands,
        IF skill.kind = "Hook" /\ skill.trigger # None
        THEN Put(R.hooks, trigger_key(skill.trigger[1]),
                 Append(HookIds(R.hooks, trigger_key(skill.trigger[1])), skill.id))
        ELSE R.hooks)

\* unregister_skill: the skill is taken out of the map; its command name is
\* removed from the index, its id is dropped from the list of its trigger.
unregister_skill(R, id) ==
    IF id \notin DOMAIN R.skills THEN R
    ELSE LET skill == R.skills[id]
         IN  Reg(Remove(R.skills, id),
                 IF skill.kind = "SlashCommand" /\ skill.cmd # None
                 THEN Remove(R.slash_commands, skill.cmd[1])
                 ELSE R.slash_commands,
                 IF /\ skill.kind = "Hook"
                    /\ skill.trigger # None
                    /\ trigger_key(skill.trigger[1]) \in DOMAIN R.hooks
                 THEN [R.hooks EXCEPT ![trigger_key(skill.trigger[1])] =
                          SelectSeq(@, LAMBDA x : x # id)]
                 ELSE R.hooks)

\* save_skill: INSERT OR REPLACE, then register_skill; nothing if the
\* statement fails.
save_skill(R, skill, stored) == IF stored THEN register_skill(R, skill) ELSE R

\* delete_skill: DELETE, then unregister_skill; nothing if the statement fails.
delete_skill(R, id, deleted) == IF deleted THEN unregister_skill(R, id) ELSE R

\* clear_cache
clear_cache(R) == Reg(EmptyMap, EmptyMap, EmptyMap)

Registry == Reg(skills, slash_commands, hooks)

RegistryBecomes(R) ==
    /\ skcalls < MaxSkillCalls
    /\ skcalls' = skcalls + 1
    /\ skills' = R.skills
    /\ slash_commands' = R.slash_commands
    /\ hooks' = R.hooks
    /\ UNCHANGED notSkills

RegisterSkill(skill) == RegistryBecomes(register_skill(Registry, skill))

UnregisterSkill(id) == RegistryBecomes(unregister_skill(Registry, id))

SaveSkill(skill, stored) == RegistryBecomes(save_skill(Registry, skill, stored))

DeleteSkill(id, deleted) == RegistryBecomes(delete_skill(Registry, id, deleted))

ClearCache == RegistryBecomes(clear_cache(Registry))

\* ------------------------------------------------------- specifications

SessionInit0 ==
    /\ sessions = EmptyMap
    /\ processes = EmptyMap
    /\ inflight = EmptyBag
    /\ emitted = 0
    /\ shut = ShutIdle
    /\ creating = {}

\* StreamableHttpTransport::new
TransportInit ==
    /\ connected = FALSE
    /\ session_id = None
    /\ server_capabilities = None
    /\ server_info = None
    /\ request_id = 1
    /\ cpc = "idle"
    /\ pending = {}
    /\ issued = <<>>
    /\ sent = 0
    /\ tret = TRet("new", "none", "return", "Ok", None)
    /\ wire = [sid |-> None, got |-> None]

\* No exchange under way.
ExchangeIdle ==
    /\ xreq = [entry |-> "none", id |-> 0]
    /\ xhttp = [status |-> "none", ctype |-> "json", body |-> None]
    /\ xres = None

NoProbe ==
    [path |-> "none", server |-> 0, sample |-> [kind |-> "none", latency |-> 0],
     old_status |-> "Unknown", health |-> NewServerHealth, events |-> <<>>,
     clone |-> NewServerHealth]

\* McpHealthMonitor::new, but for the threshold
HealthInit0 ==
    /\ running = FALSE
    /\ loops = <<>>
    /\ health_status = EmptyMap
    /\ probing = {}
    /\ probes = 0
    /\ hlast = NoProbe

\* McpHealthMonitor::new
HealthIdle ==
    /\ HealthInit0
    /\ unreachable_threshold = 3

\* TaskManager::new, but for max_history
TaskInit0 ==
    /\ subscribed = FALSE
    /\ tevents = <<>>
    /\ tasks = EmptyMap
    /\ handles = EmptyMap
    /\ tlast = TLast("none", 0, FALSE, FALSE)
    /\ calls = 0
    /\ created = 0
    /\ now = 0
    /\ completed_any = FALSE

\* TaskManager::new
TaskIdle ==
    /\ TaskInit0
    /\ max_history = 100

\* ------------------------------------------------------ workflow executor

MaxSteps == 2

\* WorkflowStep.id: a step is named by its place in WorkflowConfig.steps, and
\* depends_on may name any id, a later step or a step that is not there.
StepIds == 1..MaxSteps

\* WorkflowStepKind, with Tool standing for the kinds execute_workflow_step
\* sends to its catch-all arm (Tool, Condition, Parallel, UserInput).
StepKinds == {"Shell", "Prompt", "SkillRef", "Tool"}

\* What the world answers when a step of the kind is run: a shell command
\* exits 0 ("ok"), exits non-zero ("fail") or cannot be run ("err"); a
\* referenced skill's execute succeeds ("ok") or fails ("fail").
StepRuns(kind) ==
    CASE kind = "Shell" -> {"ok", "fail", "err"}
      [] kind = "SkillRef" -> {"ok", "fail"}
      [] OTHER -> {"ok"}

WorkflowSteps ==
    UNION {[kind : {k}, depends_on : SUBSET StepIds, run : StepRuns(k)] : k \in StepKinds}

Workflows == UNION {[1..n -> WorkflowSteps] : n \in 0..MaxSteps}

StepResult(id, success, output, error) ==
    [step_id |-> id, success |-> success, output |-> output, error |-> error]

SkillResult(success, output, error, steps, ran) ==
    [success |-> success, output |-> output, error |-> error, steps |-> steps,
     ran |-> ran]

execute_workflow_step(step, id) ==
    CASE step.kind = "Shell" ->
            IF step.run = "err" THEN StepResult(id, FALSE, None, Some("spawn"))
            ELSE StepResult(id, step.run = "ok", Some("exit"),
                            IF step.run = "ok" THEN None ELSE Some("stderr"))
      [] step.kind = "Prompt" -> StepResult(id, TRUE, Some("prompt"), None)
      [] step.kind = "SkillRef" ->
            IF step.run = "ok" THEN StepResult(id, TRUE, Some("skill"), None)
            ELSE StepResult(id, FALSE, None, Some("skill"))
      [] OTHER -> StepResult(id, TRUE, None, None)

DepsNotMet(id) == StepResult(id, FALSE, None, Some("Dependencies not met"))

\* The loop of execute_workflow from step i on, without the break.
RECURSIVE workflow_steps_on(_, _, _, _, _)
workflow_steps_on(steps, i, completed, step_results, ran) ==
    IF i > Len(steps) THEN [completed |-> completed, steps |-> step_results, ran |-> ran]
    ELSE IF ~(steps[i].depends_on \subseteq completed)
         THEN workflow_steps_on(steps, i + 1, completed,
                                Append(step_results, DepsNotMet(i)), ran)
         ELSE LET r == execute_workflow_step(steps[i], i)
              IN  workflow_steps_on(steps, i + 1,
                      IF r.success /\ r.output # None THEN completed \cup {i} ELSE completed,
                      Append(step_results, r), Append(ran, i))

\* The loop of execute_workflow from step i on: completed holds the ids with a
\* recorded output, step_results the records pushed so far, ran the ids handed
\* to execute_workflow_step so far.
RECURSIVE workflow_steps(_, _, _, _, _)
workflow_steps(steps, i, completed, step_results, ran) ==
    IF i > Len(steps) THEN [completed |-> completed, steps |-> step_results, ran |-> ran]
    ELSE IF ~(steps[i].depends_on \subseteq completed)
         THEN workflow_steps(steps, i + 1, completed,
                             Append(step_results, DepsNotMet(i)), ran)
         ELSE LET r == execute_workflow_step(steps[i], i)
              IN  IF ~r.success
                  THEN [completed |-> completed, steps |-> Append(step_results, r),
                        ran |-> Append(ran, i)]
                  ELSE workflow_steps(steps, i + 1,
                          IF r.output # None THEN completed \cup {i} ELSE completed,
                          Append(step_results, r), Append(ran, i))

FirstFailure(step_results) ==
    LET failed == {k \in 1..Len(step_results) : ~step_results[k].success}
    IN  IF failed = {} THEN None
        ELSE step_results[CHOOSE k \in failed : \A j \in failed : k <= j].error

execute_workflow(workflow) ==
    IF workflow = None
    THEN SkillResult(FALSE, None, Some("Invalid workflow configuration"), None, <<>>)
    ELSE LET done == workflow_steps(workflow[1], 1, {}, <<>>, <<>>)
             all_success == \A k \in 1..Len(done.steps) : done.steps[k].success
         IN  SkillResult(all_success, Some(done.completed),
                         IF all_success THEN None ELSE FirstFailure(done.steps),
                         Some(done.steps), done.ran)

ExecuteWorkflow ==
    /\ wres = None
    /\ wres' = Some(execute_workflow(wflow))
    /\ UNCHANGED <<wflow, notWorkflow>>

\* --------------------------------------------------------- skill executor

MaxRegistry == 2

MaxRefSteps == 2

\* The ids of the registered skills; a SkillRef step may also carry no skill_id,
\* read as "" (0 here), which names no skill.
ExecIds == 1..MaxRegistry

\* More execute calls nested than the registry has skills: one workflow is
\* running inside its own run.
MaxDepth == MaxRegistry + 1

\* The steps of the registered workflows: prompts, shell commands that exit 0
\* or not, and references to skills.
ExecSteps ==
    [kind : {"Prompt"}, depends_on : {{}}, run : {"ok"}, skill_id : {0}]
        \cup [kind : {"Shell"}, depends_on : {{}}, run : {"ok", "fail"}, skill_id : {0}]
        \cup [kind : {"SkillRef"}, depends_on : {{}}, run : {"ok"}, skill_id : {0} \cup ExecIds]

ExecWorkflows == UNION {[1..n -> ExecSteps] : n \in 1..MaxRefSteps}

\* The skills the executor may find under an id: a slash command, a hook with
\* the answer of its command, a workflow, a template (standing for Template
\* and Agent, which only hand their configuration back); each enabled or not.
ExecSkills(id) ==
    [id : {id}, kind : {"SlashCommand"}, enabled : BOOLEAN, cmd : {Some("build")},
     trigger : {None}, run : {"ok"}, steps : {<<>>}]
        \cup [id : {id}, kind : {"Hook"}, enabled : BOOLEAN, cmd : {None},
              trigger : {Some("PreTool")}, run : {"ok", "fail"}, steps : {<<>>}]
        \cup [id : {id}, kind : {"Workflow"}, enabled : BOOLEAN, cmd : {None},
              trigger : {None}, run : {"ok"}, steps : ExecWorkflows]
        \cup [id : {id}, kind : {"Template"}, enabled : BOOLEAN, cmd : {None},
              trigger : {None}, run : {"ok"}, steps : {<<>>}]

\* The registry after register_skill of the skills of s, in order.
RECURSIVE Registered(_)
Registered(s) ==
    IF s = <<>> THEN Reg(EmptyMap, EmptyMap, EmptyMap)
    ELSE register_skill(Registered(SubSeq(s, 1, Len(s) - 1)), s[Len(s)])

get_skill(R, id) == IF id \in DOMAIN R.skills THEN Some(R.skills[id]) ELSE None

get_slash_command(R, name) ==
    IF name \in DOMAIN R.slash_commands
    THEN get_skill(R, R.slash_commands[name]) ELSE None

\* The skills of the ids listed under the trigger key, ids without a skill left out.
get_hooks_for_trigger(R, key) ==
    LET ids == SelectSeq(HookIds(R.hooks, key), LAMBDA id : id \in DOMAIN R.skills)
    IN  [k \in 1..Len(ids) |-> R.skills[ids[k]]]

\* A SkillResult, with the skills whose prompt was expanded, whose command was
\* run or whose steps were begun on the way (ran), and whether the call
\* returned at all.
ExecResult(success, output, error, steps, ran, returns) ==
    [success |-> success, output |-> output, error |-> error, steps |-> steps,
     ran |-> ran, returns |-> returns]

Failed(error) == ExecResult(FALSE, None, Some(error), None, {}, TRUE)

execute_slash_command(skill) ==
    IF skill.cmd = None THEN Failed("Invalid slash command configuration")
    ELSE ExecResult(TRUE, Some("prompt"), None, None, {skill.id}, TRUE)

execute_hook(skill) ==
    IF skill.trigger = None THEN Failed("Invalid hook configuration")
    ELSE ExecResult(skill.run = "ok", Some("exit"),
                    IF skill.run = "ok" THEN None ELSE Some("stderr"),
                    None, {skill.id}, TRUE)

execute_template(skill) ==
    ExecResult(TRUE, Some("content"), None, None, {skill.id}, TRUE)

RECURSIVE execute(_, _, _)
RECURSIVE registry_steps(_, _, _, _, _, _, _)

\* execute_workflow_step with the registry behind it: a SkillRef step is
\* execute of its skill_id, one level deeper.
registry_step(R, step, i, depth) ==
    IF step.kind = "SkillRef"
    THEN LET result == execute(R, step.skill_id, depth + 1)
         IN  [record |-> StepResult(i, result.success, result.output, result.error),
              ran |-> result.ran, returns |-> result.returns]
    ELSE [record |-> execute_workflow_step(step, i), ran |-> {}, returns |-> TRUE]

\* The loop of execute_workflow from step i on, as workflow_steps, with the
\* registry behind the SkillRef steps.
registry_steps(R, steps, i, completed, step_results, ran, depth) ==
    IF i > Len(steps)
    THEN [completed |-> completed, steps |-> step_results, ran |-> ran, returns |-> TRUE]
    ELSE IF ~(steps[i].depends_on \subseteq completed)
         THEN registry_steps(R, steps, i + 1, completed,
                             Append(step_results, DepsNotMet(i)), ran, depth)
         ELSE LET r == registry_step(R, steps[i], i, depth)
              IN  IF ~r.returns
                  THEN [completed |-> completed, steps |-> step_results,
                        ran |-> ran \cup r.ran, returns |-> FALSE]
                  ELSE IF ~r.record.success
                  THEN [completed |-> completed, steps |-> Append(step_results, r.record),
                        ran |-> ran \cup r.ran, returns |-> TRUE]
                  ELSE registry_steps(R, steps, i + 1,
                          IF r.record.output # None THEN completed \cup {i} ELSE completed,
                          Append(step_results, r.record), ran \cup r.ran, depth)

registry_workflow(R, skill, depth) ==
    LET done == registry_steps(R, skill.steps, 1, {}, <<>>, {skill.id}, depth)
        all_success == \A k \in 1..Len(done.steps) : done.steps[k].success
    IN  ExecResult(done.returns /\ all_success, Some(done.completed),
                   IF all_success THEN None ELSE FirstFailure(done.steps),
                   Some(done.steps), done.ran, done.returns)

\* execute: the call does not return when the nesting has passed MaxDepth.
execute(R, skill_id, depth) ==
    IF depth > MaxDepth THEN ExecResult(FALSE, None, None, None, {}, FALSE)
    ELSE IF get_skill(R, skill_id) = None THEN Failed("Skill not found")
    ELSE LET skill == get_skill(R, skill_id)[1]
         IN  IF ~skill.enabled THEN Failed("Skill is disabled")
             ELSE CASE skill.kind = "SlashCommand" -> execute_slash_command(skill)
                    [] skill.kind = "Hook" -> execute_hook(skill)
                    [] skill.kind = "Workflow" -> registry_workflow(R, skill, depth)
                    [] OTHER -> execute_template(skill)

execute_slash_command_by_name(R, command_name) ==
    IF get_slash_command(R, command_name) = None THEN Failed("Slash command not found")
    ELSE execute_slash_command(get_slash_command(R, command_name)[1])

execute_hooks_for_trigger(R, trigger) ==
    LET found == get_hooks_for_trigger(R, trigger_key(trigger))
    IN  [k \in 1..Len(found) |-> execute(R, found[k].id, 1)]

Execute ==
    /\ eres = None
    /\ ecall.entry = "execute"
    /\ eres' = Some(<<execute(ereg, ecall.arg, 1)>>)
    /\ UNCHANGED <<ereg, ecall, notExecutor>>

ExecuteSlashCommandByName ==
    /\ eres = None
    /\ ecall.entry = "execute_slash_command_by_name"
    /\ eres' = Some(<<execute_slash_command_by_name(ereg, ecall.arg)>>)
    /\ UNCHANGED <<ereg, ecall, notExecutor>>

ExecuteHooksForTrigger ==
    /\ eres = None
    /\ ecall.entry = "execute_hooks_for_trigger"
    /\ eres' = Some(execute_hooks_for_trigger(ereg, ecall.arg))
    /\ UNCHANGED <<ereg, ecall, notExecutor>>

\* No executor entry point has been called.
ExecutorIdle ==
    /\ ereg = Reg(EmptyMap, EmptyMap, EmptyMap)
    /\ ecall = [entry |-> "none", arg |-> 0]
    /\ eres = None

\* SkillRegistry::new
SkillIdle ==
    /\ skills = EmptyMap
    /\ slash_commands = EmptyMap
    /\ hooks = EmptyMap
    /\ skcalls = 0

\* ------------------------------------------------------ ManagedProcess

\* ManagedProcess: whether the kill switch and the two reader handles are set
\* (new sets none, the with_ builders set one each).
ManagedProcesses ==
    [kill_tx : BOOLEAN, stdout_handle : BOOLEAN, stderr_handle : BOOLEAN]

\* What child.wait() under the timeout gives: the child exited in time, the
\* wait itself failed, or the deadline passed.
WaitOutcomes == {"exited", "wait_err", "timeout"}

\* What child.kill() gives.
KillOutcomes == {"ok", "err"}

MRes(op, process, trace, res) ==
    [op |-> op, process |-> process, trace |-> trace, res |-> res]

\* kill_tx.take() and the send on it.
SendKill(p) == IF p.kill_tx THEN <<"signal">> ELSE <<>>

\* stdout_handle.take(), stderr_handle.take() and their abort().
AbortReaders(p) ==
    (IF p.stdout_handle THEN <<"abort_stdout">> ELSE <<>>)
        \o (IF p.stderr_handle THEN <<"abort_stderr">> ELSE <<>>)

Signalled(p) == [p EXCEPT !.kill_tx = FALSE]

ReadersTaken(p) == [p EXCEPT !.stdout_handle = FALSE, !.stderr_handle = FALSE]

\* ManagedProcess::shutdown: signal, wait up to the timeout, force kill unless
\* the child exited in time, abort the readers; an error of the forced kill
\* is returned at once.
shutdown(p, waited, killed) ==
    LET first == SendKill(p) \o <<"wait">>
    IN  IF waited = "exited"
        THEN MRes("shutdown", ReadersTaken(Signalled(p)),
                  first \o AbortReaders(p), "Ok")
        ELSE IF killed = "err"
        THEN MRes("shutdown", Signalled(p), first \o <<"kill">>, "Err")
        ELSE MRes("shutdown", ReadersTaken(Signalled(p)),
                  first \o <<"kill">> \o AbortReaders(p), "Ok")

\* ManagedProcess::kill: signal, kill, abort the readers; an error of the kill
\* is returned at once.
kill(p, killed) ==
    IF killed = "err"
    THEN MRes("kill", Signalled(p), SendKill(p) \o <<"kill">>, "Err")
    ELSE MRes("kill", ReadersTaken(Signalled(p)),
              SendKill(p) \o <<"kill">> \o AbortReaders(p), "Ok")

\* cancel_session has taken the process out of the map and shuts it down.
ProcessShutdown ==
    /\ mres = None
    /\ mres' = Some(shutdown(mproc.process, mproc.waited, mproc.killed))
    /\ UNCHANGED <<mproc, notProcess>>

\* kill_session has taken the process out of the map and kills it.
ProcessKill ==
    /\ mres = None
    /\ mres' = Some(kill(mproc.process, mproc.killed))
    /\ UNCHANGED <<mproc, notProcess>>

NoProcess ==
    [process |-> [kill_tx |-> FALSE, stdout_handle |-> FALSE, stderr_handle |-> FALSE],
     waited |-> "exited", killed |-> "ok"]

\* No process is being shut down.
ProcessIdle ==
    /\ mproc = NoProcess
    /\ mres = None

\* No workflow has been handed to the executor.
WorkflowIdle ==
    /\ wflow = None
    /\ wres = None

\* SessionManager::with_limits
SessionInit ==
    /\ SessionInit0
    /\ max_sessions \in 0..MaxSessionsLimit
    /\ TransportInit
    /\ ExchangeIdle
    /\ HealthIdle
    /\ TaskIdle
    /\ SkillIdle
    /\ WorkflowIdle
    /\ ProcessIdle
    /\ ExecutorIdle

SessionNext ==
    \/ \E id \in SessionIds : CreateSession(id)
    \/ \E id \in SessionIds, pid \in Pids : RegisterProcess(id, pid)
    \/ \E id \in SessionIds : CancelSessionBegin(id)
    \/ \E call \in BagToSet(inflight) : CancelSessionEnd(call)
    \/ \E id \in SessionIds : KillSessionBegin(id)
    \/ \E call \in BagToSet(inflight) : KillSessionEnd(call)
    \/ \E id \in SessionIds : CompleteSession(id)
    \/ \E id \in SessionIds : FailSession(id)
    \/ CleanupTerminalSessions
    \/ CleanupStaleSessions

Outcomes == {"ok", "error", "neterr"}

Headers == {None} \cup {Some(v) : v \in 0..NumSids}

TransportNext ==
    \/ \E v \in BOOLEAN : ConnectBegin(v)
    \/ \E o \in Outcomes, h \in Headers : ConnectInitializeResponse(o, h)
    \/ \E a \in BOOLEAN : ConnectInitializedResponse(a)
    \/ Disconnect
    \/ ListTools
    \/ CallTool
    \/ ListResources
    \/ ReadResource
    \/ ListPrompts
    \/ GetPrompt
    \/ Ping
    \/ \E m \in RawMethods, id \in 1..MaxRequests : SendRequest(m, id)
    \/ \E m \in NotificationMethods : SendNotification(m)
    \/ \E p \in pending, o \in Outcomes, h \in Headers : Response(p, o, h)

vars == <<sessVars, tpVars, rxVars, hlVars, tkVars, skVars, wfVars, mpVars, exVars>>

SessionSpec == SessionInit /\ [][SessionNext]_vars

\* The manager is shut down while callers still create sessions, register
\* processes, complete sessions and reap terminal ones.
ShutdownNext ==
    \/ \E id \in SessionIds : CreateSession(id)
    \/ \E id \in SessionIds, pid \in Pids : RegisterProcess(id, pid)
    \/ \E id \in SessionIds : CompleteSession(id)
    \/ CleanupTerminalSessions
    \/ ShutdownAllBegin
    \/ \E id \in SessionIds : ShutdownAllCancelBegin(id)
    \/ ShutdownAllCancelEnd
    \/ ShutdownAllEnd

ShutdownSpec == SessionInit /\ [][ShutdownNext]_vars

\* Several callers create sessions at once, each with its own id, while
\* sessions complete and terminal ones are reaped.
CreateNext ==
    \/ \E id \in SessionIds : CreateSessionBegin(id)
    \/ \E id \in SessionIds : CreateSessionEnd(id)
    \/ \E id \in SessionIds, pid \in Pids : RegisterProcess(id, pid)
    \/ \E id \in SessionIds : CompleteSession(id)
    \/ CleanupTerminalSessions

CreateSpec == SessionInit /\ [][CreateNext]_vars

\* One transport; the session manager stays as SessionManager::new leaves it.
TransportSpecInit ==
    /\ SessionInit0
    /\ max_sessions = MaxSessionsLimit
    /\ TransportInit
    /\ ExchangeIdle
    /\ HealthIdle
    /\ TaskIdle
    /\ SkillIdle
    /\ WorkflowIdle
    /\ ProcessIdle
    /\ ExecutorIdle

TransportSpec == TransportSpecInit /\ [][TransportNext]_vars

\* One request of one entry point and the answer the server gives to it.
ExchangeInit ==
    /\ SessionInit0
    /\ max_sessions = MaxSessionsLimit
    /\ TransportInit
    /\ xreq \in [entry : ExchangeEntries, id : MsgIds]
    /\ xhttp \in HttpResponses
    /\ xres = None
    /\ HealthIdle
    /\ TaskIdle
    /\ SkillIdle
    /\ WorkflowIdle
    /\ ProcessIdle
    /\ ExecutorIdle

ExchangeNext ==
    \/ SendRequestReturns
    \/ PingReturns
    \/ CallToolReturns

ExchangeSpec == ExchangeInit /\ [][ExchangeNext]_vars

\* McpHealthMonitor::with_settings
HealthInit ==
    /\ SessionInit0
    /\ max_sessions = MaxSessionsLimit
    /\ TransportInit
    /\ ExchangeIdle
    /\ HealthInit0
    /\ unreachable_threshold \in 1..MaxThreshold
    /\ TaskIdle
    /\ SkillIdle
    /\ WorkflowIdle
    /\ ProcessIdle
    /\ ExecutorIdle

HealthNext ==
    \/ \E s \in ServerIds : CheckServerHealthBegin(s)
    \/ \E pr \in probing, x \in PingSamples : CheckServerHealthEnd(pr, x)
    \/ \E s \in ServerIds : CheckEndpointHealthBegin(s)
    \/ \E pr \in probing, x \in HeadSamples : CheckEndpointHealthEnd(pr, x)
    \/ \E s \in ServerIds : MonitorProbeBegin(s)
    \/ \E pr \in probing, x \in HeadSamples : MonitorProbeEnd(pr, x)
    \/ \E pr \in probing : ClientBuildFails(pr)

HealthSpec == HealthInit /\ [][HealthNext]_vars

\* The monitor's background loops, started and stopped by its owner.
MonitorNext ==
    \/ StartMonitoring
    \/ StopMonitoring
    \/ \E l \in DOMAIN loops : LoopWhile(l)
    \/ \E l \in DOMAIN loops : LoopWake(l)
    \/ \E l \in DOMAIN loops : LoopProbeBegin(l)
    \/ \E l \in DOMAIN loops, x \in HeadSamples : LoopProbeEnd(l, x)
    \/ \E l \in DOMAIN loops : LoopBuildFails(l)

MonitorSpec == HealthInit /\ [][MonitorNext]_vars

\* TaskManager::with_limits
TaskInit ==
    /\ SessionInit0
    /\ max_sessions = MaxSessionsLimit
    /\ TransportInit
    /\ ExchangeIdle
    /\ HealthIdle
    /\ TaskInit0
    /\ max_history \in 0..MaxHistoryLimit
    /\ SkillIdle
    /\ WorkflowIdle
    /\ ProcessIdle
    /\ ExecutorIdle

TaskNext ==
    \/ CreateTask
    \/ \E id \in IssuedTaskIds, h \in TaskHandles : RegisterHandle(id, h)
    \/ \E id \in IssuedTaskIds : StartTask(id)
    \/ \E id \in IssuedTaskIds, ok \in BOOLEAN : CompleteTask(id, ok)
    \/ \E id \in IssuedTaskIds : CancelTask(id)
    \/ \E id \in IssuedTaskIds : AbortTask(id)
    \/ CleanupHistory
    \/ ClearCompleted
    \/ Tick

TaskSpec == TaskInit /\ [][TaskNext]_vars

\* A task manager whose events a subscriber receives from the start.
TaskEventInit ==
    /\ SessionInit0
    /\ max_sessions = MaxSessionsLimit
    /\ TransportInit
    /\ ExchangeIdle
    /\ HealthIdle
    /\ SkillIdle
    /\ WorkflowIdle
    /\ ProcessIdle
    /\ ExecutorIdle
    /\ subscribed = TRUE
    /\ tevents = <<>>
    /\ tasks = EmptyMap
    /\ handles = EmptyMap
    /\ tlast = TLast("none", 0, FALSE, FALSE)
    /\ calls = 0
    /\ created = 0
    /\ now = 0
    /\ completed_any = FALSE
    /\ max_history = MaxHistoryLimit

TaskEventNext ==
    \/ CreateTask
    \/ \E id \in IssuedTaskIds : StartTask(id)
    \/ \E id \in IssuedTaskIds, p \in {1} : UpdateProgress(id, p)
    \/ \E id \in IssuedTaskIds, ok \in BOOLEAN : CompleteTask(id, ok)
    \/ \E id \in IssuedTaskIds : CancelTask(id)
    \/ \E id \in IssuedTaskIds : AbortTask(id)

TaskEventSpec == TaskEventInit /\ [][TaskEventNext]_vars

SkillInit ==
    /\ SessionInit0
    /\ max_sessions = MaxSessionsLimit
    /\ TransportInit
    /\ ExchangeIdle
    /\ HealthIdle
    /\ TaskIdle
    /\ SkillIdle
    /\ WorkflowIdle
    /\ ProcessIdle
    /\ ExecutorIdle

SkillNext ==
    \/ \E s \in Skills : RegisterSkill(s)
    \/ \E id \in SkillIds : UnregisterSkill(id)
    \/ \E s \in Skills, ok \in BOOLEAN : SaveSkill(s, ok)
    \/ \E id \in SkillIds, ok \in BOOLEAN : DeleteSkill(id, ok)
    \/ ClearCache

SkillSpec == SkillInit /\ [][SkillNext]_vars

\* A workflow skill is handed to execute_workflow once.
WorkflowInit ==
    /\ SessionInit0
    /\ max_sessions = MaxSessionsLimit
    /\ TransportInit
    /\ ExchangeIdle
    /\ HealthIdle
    /\ TaskIdle
    /\ SkillIdle
    /\ wflow \in {None} \cup {Some(w) : w \in Workflows}
    /\ wres = None
    /\ ProcessIdle
    /\ ExecutorIdle

WorkflowNext ==
    \/ ExecuteWorkflow

WorkflowSpec == WorkflowInit /\ [][WorkflowNext]_vars

\* A registered process, with the answers its child will give, is handed to
\* cancel_session or kill_session.
ProcessInit ==
    /\ SessionInit0
    /\ max_sessions = MaxSessionsLimit
    /\ TransportInit
    /\ ExchangeIdle
    /\ HealthIdle
    /\ TaskIdle
    /\ SkillIdle
    /\ WorkflowIdle
    /\ mproc \in [process : ManagedProcesses, waited : WaitOutcomes, killed : KillOutcomes]
    /\ mres = None
    /\ ExecutorIdle

ProcessNext ==
    \/ ProcessShutdown
    \/ ProcessKill

ProcessSpec == ProcessInit /\ [][ProcessNext]_vars

\* An entry point of the executor is called once, on a registry of up to
\* MaxRegistry skills registered in the order of their ids.
ExecutorInit ==
    /\ SessionInit0
    /\ max_sessions = MaxSessionsLimit
    /\ TransportInit
    /\ ExchangeIdle
    /\ HealthIdle
    /\ TaskIdle
    /\ SkillIdle
    /\ WorkflowIdle
    /\ ProcessIdle
    /\ \E n \in 0..MaxRegistry :
          \E s \in [1..n -> UNION {ExecSkills(id) : id \in ExecIds}] :
              /\ \A k \in 1..n : s[k].id = k
              /\ ereg = Registered(s)
    /\ ecall \in [entry : {"execute"}, arg : {0} \cup ExecIds]
                  \cup [entry : {"execute_slash_command_by_name"}, arg : CommandNames]
                  \cup [entry : {"execute_hooks_for_trigger"}, arg : HookTriggers]
    /\ eres = None

ExecutorNext ==
    \/ Execute
    \/ ExecuteSlashCommandByName
    \/ ExecuteHooksForTrigger

ExecutorSpec == ExecutorInit /\ [][ExecutorNext]_vars

\* ------------------------------------------------ session kernel claims

TerminalStatus == {"Completed", "Cancelled", "Failed"}

Events(id) == sessions[id].bus

\* C1: the status of a session enters a terminal state exactly once: no status
\* change leaves Completed, Cancelled or Failed, and a terminal session has no pid.
C1_TerminalExactlyOnce ==
    \A id \in DOMAIN sessions :
        /\ \A i \in 1..Len(Events(id)) :
              Events(id)[i].old_status \in TerminalStatus
                  => Events(id)[i].new_status = Events(id)[i].old_status
        /\ is_terminal(sessions[id]) => sessions[id].pid = NoPid

\* C2: status transitions form a DAG: a status that has been left is never
\* entered again, nothing enters Initializing, nothing leaves a terminal status.
C2_TransitionsFormDag ==
    \A id \in DOMAIN sessions :
        LET e == Events(id)
        IN  /\ \A i \in 1..Len(e) : e[i].new_status # "Initializing"
            /\ \A i \in 1..Len(e) :
                  e[i].old_status \in TerminalStatus
                      => e[i].new_status = e[i].old_status
            /\ \A i \in 1..Len(e), j \in 1..Len(e) :
                  (i < j /\ e[i].old_status # e[i].new_status
                         /\ e[j].old_status # e[j].new_status)
                      => e[j].new_status # e[i].old_status

\* C3: pid is present if and only if the status is Running, Paused or Terminating.
C3_PidIffLive ==
    \A id \in DOMAIN sessions :
        (sessions[id].pid # NoPid)
            <=> (sessions[id].status \in {"Running", "Paused", "Terminating"})

AtCapacity == Cardinality(DOMAIN sessions) = max_sessions

Created(id) == create_session(sessions, processes, max_sessions, id)

Survivors == DOMAIN sessions \ TerminalIds(sessions)

Cancelled(id) ==
    LET b == cancel_session_begin(sessions, processes, id)
    IN  cancel_session_end(b.sessions, b.processes, id)

\* C5: cancel_session with an id that is not in the registry returns
\* SessionNotFound.
C5_CancelUnknownIsError ==
    \A id \in SessionIds \ DOMAIN sessions :
        Cancelled(id).res = "SessionNotFound"

\* C6: cancel_session on a Running session emits StatusChanged(Running ->
\* Terminating), StatusChanged(Terminating -> Cancelled) and then Cancelled on
\* the session's bus, and leaves the status Cancelled.
C6_CancelEventOrder ==
    \A id \in DOMAIN sessions :
        sessions[id].status = "Running"
            => LET after == Cancelled(id).sessions[id]
               IN  /\ after.status = "Cancelled"
                   /\ SubSeq(after.bus, Len(Events(id)) + 1, Len(after.bus))
                        = << StatusChanged("Running", "Terminating"),
                             StatusChanged("Terminating", "Cancelled"),
                             [type |-> "Cancelled"] >>

\* ---------------------------------------------------- transport claims

GuardedEntries ==
    {"list_tools", "call_tool", "list_resources", "read_resource",
     "list_prompts", "get_prompt"}

ConnectReturnedOk ==
    TRet("connect", "notifications/initialized", "return", "Ok", None)

\* C7: when connect() has just returned success, connected is true and the
\* capabilities are cached; when disconnect() has just returned, whatever came
\* before it, connected is false and the capabilities and session id are cleared.
C7_ConnectDisconnectState ==
    /\ tret = ConnectReturnedOk
          => (connected /\ server_capabilities # None)
    /\ tret.entry = "disconnect"
          => (~connected /\ server_capabilities = None /\ session_id = None)

C9_NotConnectedGuard ==
    [][ (/\ ~connected
         /\ tret'.step = "call"
         /\ tret'.entry # "connect"
         /\ tret'.method \notin Exempt)
            => (tret'.res = "NotConnected" /\ sent' = sent /\ pending' = pending)
      ]_vars

Returned == xres[1]

\* C11: a response object returned successfully to the caller of a request has
\* the id of that request, for a JSON body as for an SSE stream.
C11_ResponseIdMatches ==
    (xres # None /\ Returned.ok /\ Returned.sel # None)
        => Returned.sel[1].id = xreq.id

\* The first frame, in stream order, whose data is a response with this id.
RECURSIVE FirstMatch(_, _)
FirstMatch(frames, id) ==
    IF frames = <<>> THEN None
    ELSE IF Head(frames).kind = "response" /\ Head(frames).msg.id = id
         THEN Some(Head(frames).msg)
    ELSE FirstMatch(Tail(frames), id)

IsSse == xhttp.status \in {"200", "202"} /\ xhttp.ctype = "sse"

\* C12: for an SSE response the transport returns the first frame in stream
\* order whose data is a response with the request's id; what comes before it
\* is skipped and what comes after it does not change the result.
C12_SseFirstMatch ==
    (/\ xres # None
     /\ xreq.entry = "send_request"
     /\ IsSse
     /\ FirstMatch(Complete(xhttp.body), xreq.id) # None)
        => Returned = RpcOk(FirstMatch(Complete(xhttp.body), xreq.id)[1])

\* C13: when the response selected for a request carries an error object, the
\* operation fails with JsonRpcError of that code and message, for a JSON body
\* as for an SSE frame; no caller gets Ok for it.
C13_RpcErrorSurfaced ==
    (xres # None /\ Returned.sel # None /\ Returned.sel[1].error # None)
        => /\ ~Returned.ok
           /\ Returned.err = Some(JsonRpcError(Returned.sel[1].error[1]))

\* ------------------------------------------------ session header claims

\* This step ends the exchange of a request (not of a notification) with a
\* response or a failed send.
RequestAnswered ==
    \/ /\ Cardinality(pending') < Cardinality(pending)
       /\ tret'.entry # "send_notification"
    \/ cpc = "initialize" /\ cpc' # "initialize"

\* This step builds a message and sends it.
MessageBuilt == sent' = sent + 1

\* C14 (as claimed): a response to a request that carries Mcp-Session-Id: v
\* makes v the stored session id, whatever v is; every message built carries
\* the stored id; the stored id changes only by such a response or by
\* disconnect().
C14_SessionHeaderAsClaimed ==
    [][ /\ (RequestAnswered /\ wire'.got # None) => session_id' = wire'.got
        /\ (RequestAnswered /\ wire'.got = None) => session_id' = session_id
        /\ MessageBuilt => wire'.sid = session_id'
        /\ session_id' # session_id
              => \/ RequestAnswered /\ wire'.got = session_id'
                 \/ tret'.entry = "disconnect" /\ session_id' = None
      ]_vars

\* C14 (amended): as claimed for a header value that is visible-ASCII text; a
\* header value that is not leaves the stored session id as it was.
C14_SessionHeader ==
    [][ /\ (RequestAnswered /\ wire'.got # None)
              => session_id' = IF to_str(wire'.got[1]) # None
                               THEN to_str(wire'.got[1]) ELSE session_id
        /\ (RequestAnswered /\ wire'.got = None) => session_id' = session_id
        /\ MessageBuilt => wire'.sid = session_id'
        /\ session_id' # session_id
              => \/ RequestAnswered /\ wire'.got = session_id'
                 \/ tret'.entry = "disconnect" /\ session_id' = None
      ]_vars

\* After a handshake whose response carried a session id, a ping has been built
\* with that id.
C14_Witness ==
    /\ connected
    /\ tret = TRet("ping", "ping", "call", "Pending", Some(2))
    /\ session_id # None
    /\ wire = Built(session_id)

\* C15: connect() with an auth whose validity check fails returns
\* InvalidCredentials, sends nothing and leaves connected false.
C15_ExpiredAuth ==
    [][ (tret'.entry = "connect" /\ tret'.step = "return" /\ cpc = "idle")
            => (tret'.res = "InvalidCredentials" /\ sent' = sent /\ ~connected')
      ]_vars

\* ------------------------------------------------ health monitor claims

EventsOf(type) == {i \in 1..Len(hlast.events) : hlast.events[i].type = type}

ProbeSucceeded == hlast.sample.kind \in {"ok", "other"}

\* max(2 * avg, 1000 ms), avg being the average the probe stores.
DegradedAbove ==
    IF 2 * hlast.health.avg_latency_ms[1] > DegradedFloorMs
    THEN 2 * hlast.health.avg_latency_ms[1] ELSE DegradedFloorMs

\* C16: on every probe path a succeeded sample of latency L leaves the status
\* Healthy if L <= max(2*avg, 1000 ms) and Degraded if L is above it; a failed
\* sample leaves it Unhealthy.
C16_StatusBySample ==
    hlast.path # "none"
        => IF ProbeSucceeded
           THEN hlast.health.status =
                    IF hlast.sample.latency <= DegradedAbove
                    THEN "Healthy" ELSE "Degraded"
           ELSE hlast.health.status = "Unhealthy"

\* C17: in a run of consecutive failed probes ServerUnreachable is emitted
\* exactly once, by the probe at which consecutive_failures reaches the
\* threshold: a failed probe emits it if and only if its count equals the
\* threshold.
C17_UnreachableOnce ==
    (hlast.path # "none" /\ hlast.health.status = "Unhealthy")
        => /\ Cardinality(EventsOf("ServerUnreachable"))
                = IF hlast.health.consecutive_failures = unreachable_threshold
                  THEN 1 ELSE 0

\* C18: on every probe path a probe emits ServerRecovered if and only if it
\* takes the status from Unhealthy to Healthy.
C18_RecoveredIffUnhealthyToHealthy ==
    hlast.path # "none"
        => Cardinality(EventsOf("ServerRecovered"))
              = IF hlast.old_status = "Unhealthy" /\ hlast.health.status = "Healthy"
                THEN 1 ELSE 0

\* C19: every probe emits exactly one CheckCompleted, carrying the record it
\* stores, and one StatusChanged(old, new) if and only if the stored status
\* differs from the status the probe found; a Degraded provider whose next
\* sample is normal becomes Healthy with one StatusChanged(Degraded -> Healthy).
C19_ProbeEvents ==
    hlast.path # "none"
        => /\ health_status[hlast.server] = hlast.health
           /\ Cardinality(EventsOf("CheckCompleted")) = 1
           /\ \A i \in EventsOf("CheckCompleted") :
                 /\ hlast.events[i] = CheckCompleted(hlast.server, hlast.health)
                 /\ i = Len(hlast.events)
           /\ Cardinality(EventsOf("StatusChanged"))
                 = IF hlast.old_status # hlast.health.status THEN 1 ELSE 0
           /\ \A i \in EventsOf("StatusChanged") :
                 hlast.events[i] = HStatusChanged(hlast.server, hlast.old_status,
                                                  hlast.health.status)
           /\ (/\ hlast.old_status = "Degraded"
               /\ hlast.sample.kind = "ok"
               /\ hlast.sample.latency <= DegradedAbove)
                 => /\ hlast.health.status = "Healthy"
                    /\ Cardinality(EventsOf("StatusChanged")) = 1

\* A Degraded provider has just been probed with a normal sample.
C19_Witness ==
    /\ hlast.path # "none"
    /\ hlast.old_status = "Degraded"
    /\ hlast.sample.kind = "ok"
    /\ hlast.health.status = "Healthy"
    /\ Cardinality(EventsOf("StatusChanged")) = 1

\* -------------------------------------------------- task manager claims

\* C20: once complete_task has been called, the task table never holds more
\* than max_history terminal tasks.
C20_HistoryBounded ==
    completed_any => Cardinality(TerminalTasks(tasks)) <= max_history

\* The tasks this step takes out of the task table.
RemovedTasks == DOMAIN tasks \ DOMAIN tasks'

\* A task this step removes was terminal before the step, or is the task this
\* step completes.
RemovedWasTerminal(id) ==
    \/ task_is_terminal(tasks[id])
    \/ tlast'.op = "complete_task" /\ tlast'.id = id

\* C21 (as claimed): a task leaves the task table only by history eviction, the
\* cleanup_history that complete_task runs or a call of it, and only when
\* terminal; an active task is never removed.
C21_OnlyEvictionRemovesAsClaimed ==
    [][ \A id \in RemovedTasks :
           /\ tlast'.op \in {"complete_task", "cleanup_history"}
           /\ RemovedWasTerminal(id)
      ]_vars

\* C21 (amended): a task leaves the task table only by history eviction or by
\* clear_completed, and only when terminal; an active task is never removed.
C21_OnlyEvictionRemoves ==
    [][ \A id \in RemovedTasks :
           /\ tlast'.op \in {"complete_task", "cleanup_history", "clear_completed"}
           /\ RemovedWasTerminal(id)
      ]_vars

\* clear_completed has just emptied a table that held a task, while history
\* eviction keeps one terminal task.
C21_Witness ==
    /\ tlast.op = "clear_completed"
    /\ max_history = 1
    /\ created = 1
    /\ tasks = EmptyMap

\* C23: abort_task on a task of the table whose handle holds the future aborts
\* the future and leaves the task Cancelled with its handle removed.
C23_AbortThenCancel ==
    (tlast.op = "abort_task" /\ tlast.existed /\ tlast.aborted)
        => /\ tlast.id \in DOMAIN tasks
           /\ tasks[tlast.id].status = "Cancelled"
           /\ tlast.id \notin DOMAIN handles

\* A Running task with a registered future has just been aborted.
C23_Witness ==
    /\ tlast.op = "abort_task"
    /\ tlast.existed
    /\ tlast.aborted
    /\ tlast.id \in DOMAIN tasks
    /\ tasks[tlast.id].status = "Cancelled"

\* ------------------------------------------------ skill registry claims

\* The registered skills of this kind.
SkillsOfKind(kind) == {id \in DOMAIN skills : skills[id].kind = kind}

\* How often an id occurs in a list of ids.
Occurrences(ids, id) == Cardinality({i \in 1..Len(ids) : ids[i] = id})

\* Two registries agree, an absent trigger key being the same as an empty list.
SameRegistry(A, B) ==
    /\ A.skills = B.skills
    /\ A.slash_commands = B.slash_commands
    /\ \A g \in HookTriggers :
          HookIds(A.hooks, trigger_key(g)) = HookIds(B.hooks, trigger_key(g))

\* C24: the indices agree with the skill map: slash_commands maps exactly the
\* command names of the registered SlashCommand skills, each to a registered
\* skill with that name; hooks[trigger] holds exactly once each the registered
\* Hook skills with that trigger; registering a skill under an id that is not
\* registered and unregistering it gives the registry back.
C24_IndicesAgree ==
    /\ DOMAIN slash_commands =
          {skills[id].cmd[1] : id \in {i \in SkillsOfKind("SlashCommand") :
                                           skills[i].cmd # None}}
    /\ \A c \in DOMAIN slash_commands :
          /\ slash_commands[c] \in SkillsOfKind("SlashCommand")
          /\ skills[slash_commands[c]].cmd = Some(c)
    /\ \A g \in HookTriggers, id \in SkillIds :
          Occurrences(HookIds(hooks, trigger_key(g)), id) =
             IF id \in SkillsOfKind("Hook") /\ skills[id].trigger = Some(g)
             THEN 1 ELSE 0
    /\ \A s \in Skills :
          s.id \notin DOMAIN skills
             => SameRegistry(unregister_skill(register_skill(Registry, s), s.id),
                             Registry)

\* ------------------------------------------------ health counters

\* The last probe recorded its sample as a failure (record_failure); otherwise
\* it recorded it as a success (record_success).
RecordedFailure == hlast.health.status = "Unhealthy"

\* C30: a sample recorded as a success resets consecutive_failures to 0, adds 1
\* to consecutive_successes and sets latency_ms to the sample; a sample recorded
\* as a failure resets consecutive_successes to 0, adds 1 to
\* consecutive_failures, clears latency_ms and sets last_error. Hence in every
\* health record at most one of the two counters is non-zero, and latency_ms is
\* absent exactly when the last sample failed or no sample was taken.
C30_Counters ==
    /\ hlast.path # "none"
        => IF RecordedFailure
           THEN /\ hlast.health.consecutive_successes = 0
                /\ hlast.health.consecutive_failures
                       = hlast.clone.consecutive_failures + 1
                /\ hlast.health.latency_ms = None
                /\ hlast.health.last_error # None
           ELSE /\ hlast.health.consecutive_failures = 0
                /\ hlast.health.consecutive_successes
                       = hlast.clone.consecutive_successes + 1
                /\ hlast.health.latency_ms = Some(hlast.sample.latency)
    /\ \A s \in DOMAIN health_status :
          /\ health_status[s].consecutive_failures = 0
                \/ health_status[s].consecutive_successes = 0
          /\ health_status[s].latency_ms = None
                <=> \/ health_status[s].consecutive_failures > 0
                    \/ health_status[s] = NewServerHealth

\* A failed sample recorded over a record that had counted a success.
C30_Witness ==
    /\ hlast.path # "none"
    /\ RecordedFailure
    /\ hlast.clone.consecutive_successes > 0
    /\ hlast.server \in DOMAIN health_status
    /\ health_status[hlast.server] = hlast.health

\* ------------------------------------------------ duplicate session ids

\* C28 (as claimed): create_session with an id that is in the registry fails
\* with SessionExists and leaves the session map and the process map as they
\* were, whatever the session's status and whether or not the registry is at
\* capacity.
C28_DuplicateIdAsClaimed ==
    \A id \in DOMAIN sessions :
        /\ Created(id).res = "SessionExists"
        /\ Created(id).sessions = sessions
        /\ Created(id).processes = processes

Reaped == cleanup_terminal_sessions(sessions, processes)

\* C28 (amended): below capacity the call fails with SessionExists and changes
\* nothing, whatever the session's status. At capacity the terminal sessions
\* and their process entries are removed first; the call then fails with
\* MaxSessionsReached if the registry is still at capacity, fails with
\* SessionExists if the id is still there, and otherwise (the session of that
\* id was terminal and has been removed) succeeds with a fresh session.
C28_DuplicateId ==
    \A id \in DOMAIN sessions :
        IF Cardinality(DOMAIN sessions) < max_sessions
        THEN /\ Created(id).res = "SessionExists"
             /\ Created(id).sessions = sessions
             /\ Created(id).processes = processes
        ELSE /\ Created(id).processes = Reaped.processes
             /\ IF Cardinality(DOMAIN Reaped.sessions) >= max_sessions
                THEN /\ Created(id).res = "MaxSessionsReached"
                     /\ Created(id).sessions = Reaped.sessions
                ELSE IF ~is_terminal(sessions[id])
                THEN /\ Created(id).res = "SessionExists"
                     /\ Created(id).sessions = Reaped.sessions
                ELSE /\ Created(id).res = "Ok"
                     /\ Created(id).sessions = Put(Reaped.sessions, id, NewSessionState)

\* Below capacity, a terminal session whose id is handed to create_session again.
C28_Witness ==
    \E id \in DOMAIN sessions :
        /\ Cardinality(DOMAIN sessions) < max_sessions
        /\ is_terminal(sessions[id])
        /\ Created(id).res = "SessionExists"

\* ------------------------------------------------ kill_session and cancel_session

\* kill_session run from start to end with no other caller in between.
Killed(id) ==
    LET b == kill_session_begin(sessions, processes, id)
    IN  kill_session_end(b.sessions, b.processes, id)

\* C29: on the same registry and the same id, known or unknown, kill_session
\* does what cancel_session does but for the graceful wait: the same status
\* transitions and events on the session's bus (Terminating, then Cancelled),
\* the process entry removed, the same result.
C29_KillLikeCancel ==
    \A id \in SessionIds :
        /\ Killed(id).res = Cancelled(id).res
        /\ Killed(id).processes = Cancelled(id).processes
        /\ Killed(id).sessions = Cancelled(id).sessions

\* ------------------------------------------------ session shutdown claims

StepRecords == IF wres # None /\ wres[1].steps # None THEN wres[1].steps[1] ELSE <<>>

\* The ids handed to execute_workflow_step, in order.
StepsRan == IF wres # None THEN wres[1].ran ELSE <<>>

WasRun(id) == \E k \in 1..Len(StepsRan) : StepsRan[k] = id

\* C25: a step reached while one of its dependency ids has no recorded output
\* is recorded as failed with "Dependencies not met", and the workflow stops
\* there: no step declared after it is executed or recorded.
C25_DepsNotMetStops ==
    \A k \in 1..Len(StepRecords) :
        ~WasRun(StepRecords[k].step_id)
            => /\ StepRecords[k] = DepsNotMet(StepRecords[k].step_id)
               /\ Len(StepRecords) = k
               /\ \A j \in 1..Len(StepsRan) : StepsRan[j] < StepRecords[k].step_id

\* C26: when an executed step fails no later step is executed, the step results
\* are the records of the steps up to and including the failed one in declared
\* order, and the result has success false; the result has success true only if
\* every declared step was executed and succeeded.
C26_FailureHalts ==
    wres # None /\ wflow # None
        => /\ \A k \in 1..Len(StepRecords) :
                (WasRun(StepRecords[k].step_id) /\ ~StepRecords[k].success)
                    => /\ Len(StepRecords) = k
                       /\ \A j \in 1..k : StepRecords[j].step_id = j
                       /\ \A j \in 1..Len(StepsRan) : StepsRan[j] <= k
                       /\ ~wres[1].success
           /\ wres[1].success
                => /\ Len(StepRecords) = Len(wflow[1])
                   /\ \A j \in 1..Len(wflow[1]) :
                        WasRun(j) /\ StepRecords[j].step_id = j /\ StepRecords[j].success

\* A two-step workflow whose first step was run and failed.
C26_Witness ==
    /\ wflow # None /\ wres # None
    /\ Len(wflow[1]) = 2
    /\ StepsRan = <<1>>
    /\ Len(StepRecords) = 1
    /\ ~StepRecords[1].success
    /\ ~wres[1].success

\* ------------------------------------------------ process shutdown claims

PosOf(trace, what) ==
    IF \E k \in 1..Len(trace) : trace[k] = what
    THEN CHOOSE k \in 1..Len(trace) : trace[k] = what ELSE 0

\* C31: after the shutdown of a registered process by cancel_session, the cancel
\* signal was sent before the wait, a forced kill happened only if the child had
\* not exited within the deadline, and the stdout and stderr reader tasks have
\* been aborted whatever the outcome, a forced kill that fails included.
C31_GracefulThenForced ==
    (mres # None /\ mres[1].op = "shutdown")
        => LET trace == mres[1].trace
           IN  /\ mproc.process.kill_tx
                    => /\ PosOf(trace, "signal") > 0
                       /\ PosOf(trace, "signal") < PosOf(trace, "wait")
               /\ PosOf(trace, "kill") > 0 => mproc.waited = "timeout"
               /\ mproc.process.stdout_handle => PosOf(trace, "abort_stdout") > 0
               /\ mproc.process.stderr_handle => PosOf(trace, "abort_stderr") > 0
               /\ ~mres[1].process.stdout_handle
               /\ ~mres[1].process.stderr_handle

\* ------------------------------------------------ session concurrency claims

\* C32: whatever the interleaving of concurrent create_session calls with
\* distinct ids and of cleanup, the registry never holds more than
\* max_sessions sessions.
C32_CapacityHeld == Cardinality(DOMAIN sessions) <= max_sessions

\* C33: in every reachable state every key of the process map is the id of a
\* session of the session map whose status is not terminal: no process stays
\* registered for a removed or terminal session.
C33_ProcessesOfLiveSessions ==
    \A id \in DOMAIN processes :
        id \in DOMAIN sessions /\ ~is_terminal(sessions[id])

\* ------------------------------------------------ task lifecycle claims

\* C34: a terminal task status is absorbing: no step changes the status, the
\* result or completed_at of a task that is Completed, Failed or Cancelled, and
\* a task becomes Running only from Pending.
C34_TerminalAbsorbing ==
    [][\A id \in DOMAIN tasks \cap DOMAIN tasks' :
          /\ task_is_terminal(tasks[id])
                => /\ tasks'[id].status = tasks[id].status
                   /\ tasks'[id].result = tasks[id].result
                   /\ tasks'[id].completed_at = tasks[id].completed_at
          /\ (tasks'[id].status = "Running" /\ tasks[id].status # "Running")
                => tasks[id].status = "Pending"]_vars

\* The types of the events sent for task id, in order.
RECURSIVE TypesOf(_, _)
TypesOf(events, id) ==
    IF events = <<>> THEN <<>>
    ELSE (IF Head(events).id = id THEN <<Head(events).type>> ELSE <<>>)
            \o TypesOf(Tail(events), id)

EventRank(type) ==
    CASE type = "Created" -> 1
      [] type = "Started" -> 2
      [] type = "Progress" -> 3
      [] OTHER -> 4

Once(types, rank) == Cardinality({k \in 1..Len(types) : EventRank(types[k]) = rank}) <= 1

\* C35: for every task id the events sent are Created, then at most one
\* Started, then Progress events, then at most one terminal event (Completed,
\* Failed or Cancelled), nothing after it; and complete_task sends Completed
\* when the result is a success and Failed otherwise.
C35_EventOrder ==
    \A id \in IssuedTaskIds :
        LET types == TypesOf(tevents, id)
        IN  /\ Len(types) > 0 => types[1] = "Created"
            /\ \A k \in 1..(Len(types) - 1) :
                  EventRank(types[k]) <= EventRank(types[k + 1])
            /\ Once(types, 1) /\ Once(types, 2) /\ Once(types, 4)
            /\ (tlast.op = "complete_task" /\ tlast.id = id /\ tlast.existed
                    /\ id \in DOMAIN tasks)
                  => types[Len(types)] =
                        IF tasks[id].result = Some(TRUE) THEN "Completed" ELSE "Failed"

\* ------------------------------------------------ concurrent probes

\* C36: no sample is lost when probes of one server overlap: a probe that
\* stores its record computed it from the record the map holds at that moment,
\* so that two failed probes from consecutive_failures = n leave n + 2.
C36_NoSampleLost ==
    [][\A pr \in probing \ probing' :
          (health_status' # health_status \/ hlast' # hlast)
              => pr.health = health_status[pr.server]]_vars

\* ------------------------------------------------ monitoring loops

\* C37: once stop_monitoring has been called, no loop started before the call
\* starts another probe, also when start_monitoring is called again afterwards.
C37_StoppedLoopsProbeNoMore ==
    [][\A l \in DOMAIN loops :
          (loops[l].pc = "servers" /\ loops'[l].pc = "head") => ~loops[l].stale]_vars


\* ------------------------------------------------ workflow dependency claims

\* C40: a step the workflow reaches, all of whose depends_on steps were executed
\* earlier in declared order and succeeded, is itself executed; the dependents
\* of a step of a no-op kind, which succeeds without an output, are among them.
C40_DependentsOfSuccessRun ==
    wflow # None
        => \A k \in 1..Len(StepRecords) :
              (\A d \in wflow[1][k].depends_on :
                    d < k /\ WasRun(d) /\ StepRecords[d].success)
                 => WasRun(k)


\* ------------------------------------------------ skill executor claims

\* The SkillResults the entry point returned, <<>> before the call.
Results == IF eres = None THEN <<>> ELSE eres[1]

\* The skill the k-th result is about, None if the registry has none.
Target(k) ==
    CASE ecall.entry = "execute" -> get_skill(ereg, ecall.arg)
      [] ecall.entry = "execute_slash_command_by_name" -> get_slash_command(ereg, ecall.arg)
      [] ecall.entry = "execute_hooks_for_trigger" ->
            Some(get_hooks_for_trigger(ereg, trigger_key(ecall.arg))[k])
      [] OTHER -> None

\* C38: no entry point of the executor executes a skill whose enabled flag is
\* false: the result for such a skill is a failed one, and neither at the entry
\* point nor at a skillRef step of a workflow is its prompt expanded, its
\* command run or a step of it begun.
C38_DisabledNeverExecuted ==
    \A k \in 1..Len(Results) :
        /\ \A id \in Results[k].ran : ereg.skills[id].enabled
        /\ (Target(k) # None /\ ~Target(k)[1].enabled) => ~Results[k].success

\* C39: execute(skill_id) returns whatever the registry holds, a workflow whose
\* skillRef steps lead back to itself included.
C39_ExecuteReturns ==
    ecall.entry = "execute" => \A k \in 1..Len(Results) : Results[k].returns

====
